---- MODULE Spec2Model ----
(***************************************************************************)
(* Capture/calibration state machine (MocapConnector), recording buffer    *)
(* (RecordingManager) and the real-time part of the viewer's main loop.    *)
(*                                                                         *)
(* The connector object is the record mc, the recorder the record rm.      *)
(* Every method is an operator from the object (and the call's inputs) to  *)
(* the object after the call, so that methods which call other methods     *)
(* (disconnect -> stop_capture, toggle_connection -> connect ->            *)
(* start_capture) are compositions of the same operators.                  *)
(*                                                                         *)
(* poll_and_update is a loop over the events the SDK hands back; it is     *)
(* modelled by three steps (begin, one step per event, end), with every    *)
(* other operation disabled while a poll is running: the connector is used *)
(* from the main loop's thread only.                                       *)
(*                                                                         *)
(* Not modelled: display-only fields (stabilize_remaining, fps statistics, *)
(* calibration_countdown/progress/pose name, device version/serial), the   *)
(* network settings, and faults raised by the SDK calls themselves         *)
(* (queue_command, close, get_result_code): the SDK is taken to execute    *)
(* the calls; what it reports back (open() status, events) is an input.    *)
(***************************************************************************)
EXTENDS Integers, Sequences, FiniteSets, TLC

VARIABLES
    mc,           \* the MocapConnector object
    rm,           \* the RecordingManager object
    mode,         \* AppState.mode
    now,          \* time.time(), in seconds
    pc,           \* position of the main thread: "idle", or inside a poll ("events",
                  \* "locked", "written", "after"), or in the loop after it ("polled")
    nev,          \* events handled so far by the running poll
    ev,           \* the event handled last
    frame_data,   \* poll_and_update's local frame_data (its return value)
    op,           \* name of the operation executed last
    ret,          \* boolean result of the request executed last
    total_frames, \* result of the last stop_recording
    out,          \* commands the last operation queued to the device
    heap,         \* the dict and value objects of the caller and the recorder
    handed,       \* the object get_playback_frame returned last
    fs,           \* the BVH file: whether it exists, and its lines
    parsed,       \* what the last parse_bvh returned (or that it raised)
    matrix,       \* Joint.matrix of every joint of the parsed skeleton
    arg,          \* the arguments of the last offline operation
    ax,           \* the AxisStudioConnector object
    lock,         \* the connector's _lock: the call that holds it, or Unlocked
    reader,       \* the thread calling get_latest_frame: its position, what it got
    pending,      \* the commands queued to the device and not answered yet
    imported      \* which of the viewer's optional modules were imported

\* the state of the offline path (files, skeleton), of the object heap, of the
\* Axis Studio listener, of the threads at the connector's lock and of the
\* device's command queue, and the modules imported
offlineVars == <<heap, handed, fs, parsed, matrix, arg, ax, lock, reader, pending, imported>>

vars == <<mc, rm, mode, now, pc, nev, ev, frame_data, op, ret,
          total_frames, out, offlineVars>>

(* ------------------------------ bounds --------------------------------- *)
TickStep == 20
MaxTime == 101
MaxBatch == 2
NumFrames == 2
MaxFrames == 4
MaxRecorded == 2
MaxHeap == 8
MaxValue == 1
MaxExportFrames == 2
MaxMotionLines == 3
MaxPending == 2
MaxAppTicks == 1

(* ---------------------------- enumerations ----------------------------- *)
\* ConnectionState
DISCONNECTED == 0
CONNECTING == 1
CONNECTED == 2
CAPTURING == 3
CALIBRATING == 4
ERROR == -1

\* CapturePhase
IDLE == 0
STABILIZING == 1
READY == 2
CALIBRATED == 3

\* CalibrationState
NONE == 0
PREPARING == 1
COUNTDOWN == 2
IN_PROGRESS == 3
COMPLETED == 4
FAILED == -1

\* EMCPCommand (SDK enumeration) and the empty sentinel
CommandStartCapture == 0
CommandStopCapture == 1
CommandCalibrateMotion == 3
NoCommand == -1

\* MCPCalibrateMotionProgressStep (SDK enumeration); 3 stands for any other value
CalibrateMotionProgressStep_Prepare == 0
CalibrateMotionProgressStep_Countdown == 1
CalibrateMotionProgressStep_Progress == 2
ProgressSteps == 0..3

\* None for a time stamp or a frame: both are tested by truthiness only
NoneValue == 0

STABILIZE_DURATION == 20
CALIBRATION_TIMEOUT == 60

\* AppMode
OFFLINE == "offline"
MOCAP == "mocap"
SECAP == "secap"

(* ------------------------- MocapConnector ------------------------------ *)
MocapConnector ==
    [ is_connected             |-> FALSE,
      is_capturing             |-> FALSE,
      current_command          |-> NoCommand,
      latest_frame_data        |-> NoneValue,
      connection_state         |-> DISCONNECTED,
      capture_phase            |-> IDLE,
      stabilize_start_time     |-> NoneValue,
      calibration_state        |-> NONE,
      calibration_command_sent |-> FALSE,
      calibration_start_time   |-> NoneValue ]

\* A call's outcome: the object after it, its return value, what it queued.
Outcome(c, r, q) == [c |-> c, ret |-> r, out |-> q]

connect(c, open_ok) ==
    IF open_ok
    THEN Outcome([c EXCEPT !.is_connected = TRUE, !.connection_state = CONNECTED],
                 TRUE, <<>>)
    ELSE Outcome([c EXCEPT !.connection_state = ERROR], FALSE, <<>>)

start_capture(c) ==
    IF ~c.is_connected THEN Outcome(c, FALSE, <<>>)
    ELSE IF c.current_command # NoCommand THEN Outcome(c, FALSE, <<>>)
    ELSE Outcome([c EXCEPT !.current_command = CommandStartCapture],
                 TRUE, <<CommandStartCapture>>)

stop_capture(c) ==
    IF ~c.is_connected THEN Outcome(c, FALSE, <<>>)
    ELSE Outcome([c EXCEPT !.current_command = CommandStopCapture],
                 TRUE, <<CommandStopCapture>>)

disconnect(c) ==
    LET s == IF c.is_capturing THEN stop_capture(c) ELSE Outcome(c, FALSE, <<>>)
    IN  Outcome([s.c EXCEPT !.is_connected = FALSE,
                            !.is_capturing = FALSE,
                            !.connection_state = DISCONNECTED],
                FALSE, s.out)

\* start_calibration without the check of the capture phase
start_calibration_any_phase(c, t) ==
    IF ~c.is_capturing THEN Outcome(c, FALSE, <<>>)
    ELSE IF c.current_command # NoCommand THEN Outcome(c, FALSE, <<>>)
    ELSE IF c.calibration_command_sent THEN Outcome(c, FALSE, <<>>)
    ELSE Outcome([c EXCEPT !.current_command = CommandCalibrateMotion,
                           !.connection_state = CALIBRATING,
                           !.calibration_command_sent = TRUE,
                           !.calibration_start_time = t,
                           !.calibration_state = PREPARING],
                 TRUE, <<CommandCalibrateMotion>>)

start_calibration(c, t) ==
    IF ~c.is_capturing THEN Outcome(c, FALSE, <<>>)
    ELSE IF c.capture_phase # READY THEN Outcome(c, FALSE, <<>>)
    ELSE IF c.current_command # NoCommand THEN Outcome(c, FALSE, <<>>)
    ELSE IF c.calibration_command_sent THEN Outcome(c, FALSE, <<>>)
    ELSE Outcome([c EXCEPT !.current_command = CommandCalibrateMotion,
                           !.connection_state = CALIBRATING,
                           !.calibration_command_sent = TRUE,
                           !.calibration_start_time = t,
                           !.calibration_state = PREPARING],
                 TRUE, <<CommandCalibrateMotion>>)

can_start_calibration(c) ==
    /\ c.is_capturing
    /\ c.capture_phase = READY
    /\ ~c.calibration_command_sent
    /\ c.calibration_state \in {NONE, COMPLETED, FAILED}

is_ready_for_record(c) ==
    /\ c.is_capturing
    /\ c.capture_phase = CALIBRATED
    /\ c.calibration_state = COMPLETED

handle_calibration_progress(c, step) ==
    IF step = CalibrateMotionProgressStep_Prepare
    THEN [c EXCEPT !.calibration_state = PREPARING]
    ELSE IF step = CalibrateMotionProgressStep_Countdown
    THEN [c EXCEPT !.calibration_state = COUNTDOWN]
    ELSE IF step = CalibrateMotionProgressStep_Progress
    THEN [c EXCEPT !.calibration_state = IN_PROGRESS]
    ELSE c

\* _handle_command_result whose failure branch marks the calibration failed
\* whatever command the result answers
handle_command_result_failure_any_command(c, ret_code) ==
    LET handled ==
          IF ret_code # 0
          THEN [c EXCEPT !.calibration_state = FAILED,
                         !.calibration_command_sent = FALSE,
                         !.calibration_start_time = NoneValue,
                         !.connection_state = CAPTURING]
          ELSE IF c.current_command = CommandStopCapture
               THEN [c EXCEPT !.is_capturing = FALSE,
                              !.connection_state = CONNECTED]
               ELSE IF c.current_command = CommandCalibrateMotion
               THEN [c EXCEPT !.connection_state = CAPTURING,
                              !.calibration_state = COMPLETED,
                              !.capture_phase = CALIBRATED,
                              !.calibration_command_sent = FALSE,
                              !.calibration_start_time = NoneValue]
               ELSE c
    IN  [handled EXCEPT !.current_command = NoCommand]

handle_command_result(c, ret_code) ==
    LET handled ==
          IF ret_code # 0
          THEN IF c.current_command = CommandCalibrateMotion
               THEN [c EXCEPT !.calibration_state = FAILED,
                              !.calibration_command_sent = FALSE,
                              !.calibration_start_time = NoneValue,
                              !.connection_state = CAPTURING]
               ELSE c
          ELSE IF c.current_command = CommandStopCapture
               THEN [c EXCEPT !.is_capturing = FALSE,
                              !.connection_state = CONNECTED]
               ELSE IF c.current_command = CommandCalibrateMotion
               THEN [c EXCEPT !.connection_state = CAPTURING,
                              !.calibration_state = COMPLETED,
                              !.capture_phase = CALIBRATED,
                              !.calibration_command_sent = FALSE,
                              !.calibration_start_time = NoneValue]
               ELSE c
    IN  [handled EXCEPT !.current_command = NoCommand]

\* _reset_calibration_state that leaves the sentinel as it is
reset_calibration_state_keeps_sentinel(c) ==
    [c EXCEPT !.calibration_state = FAILED,
              !.calibration_command_sent = FALSE,
              !.calibration_start_time = NoneValue,
              !.connection_state = CAPTURING,
              !.capture_phase = IF c.capture_phase # CALIBRATED
                                THEN READY ELSE c.capture_phase]

reset_calibration_state(c) ==
    [c EXCEPT !.calibration_state = FAILED,
              !.calibration_command_sent = FALSE,
              !.calibration_start_time = NoneValue,
              !.connection_state = CAPTURING,
              !.current_command = NoCommand,
              !.capture_phase = IF c.capture_phase # CALIBRATED
                                THEN READY ELSE c.capture_phase]

\* the AvatarUpdated branch starting the capture whatever command is outstanding
handle_avatar_updated_any_sentinel(c, t) ==
    LET c1 == IF c.current_command = CommandStartCapture
              THEN [c EXCEPT !.current_command = NoCommand] ELSE c
        c2 == IF ~c1.is_capturing
              THEN [c1 EXCEPT !.is_capturing = TRUE,
                              !.connection_state = CAPTURING,
                              !.capture_phase = STABILIZING,
                              !.stabilize_start_time = t]
              ELSE c1
    IN  IF /\ c2.capture_phase = STABILIZING
           /\ c2.current_command # CommandCalibrateMotion
           /\ t - c2.stabilize_start_time >= STABILIZE_DURATION
        THEN [c2 EXCEPT !.capture_phase = READY]
        ELSE c2

\* The AvatarUpdated branch of poll_and_update's event loop.
handle_avatar_updated(c, t) ==
    LET c1 == IF c.current_command = CommandStartCapture
              THEN [c EXCEPT !.current_command = NoCommand] ELSE c
        c2 == IF ~c1.is_capturing /\ c1.current_command = NoCommand
              THEN [c1 EXCEPT !.is_capturing = TRUE,
                              !.connection_state = CAPTURING,
                              !.capture_phase = STABILIZING,
                              !.stabilize_start_time = t]
              ELSE c1
    IN  IF /\ c2.capture_phase = STABILIZING
           /\ c2.current_command # CommandCalibrateMotion
           /\ t - c2.stabilize_start_time >= STABILIZE_DURATION
        THEN [c2 EXCEPT !.capture_phase = READY]
        ELSE c2

\* Events the SDK can hand to a poll: [type, arg].
Events ==
    [type : {"AvatarUpdated"}, arg : 1..NumFrames]
    \cup [type : {"Notify", "Error", "Response"}, arg : {0}]
    \cup [type : {"Running"}, arg : ProgressSteps]
    \cup [type : {"Result"}, arg : {0, 1}]

\* the loop handling a progress event whatever command is outstanding
handle_event_progress_any_command(c, e, t) ==
    IF e.type = "AvatarUpdated" THEN handle_avatar_updated(c, t)
    ELSE IF e.type = "Running" THEN handle_calibration_progress(c, e.arg)
    ELSE IF e.type = "Result" THEN handle_command_result(c, e.arg)
    ELSE c

\* One iteration of poll_and_update's "for evt in events" loop.
handle_event(c, e, t) ==
    IF e.type = "AvatarUpdated" THEN handle_avatar_updated(c, t)
    ELSE IF e.type = "Running"
    THEN IF c.current_command = CommandCalibrateMotion
         THEN handle_calibration_progress(c, e.arg) ELSE c
    ELSE IF e.type = "Result" THEN handle_command_result(c, e.arg)
    ELSE c

\* the time-out check with a strict comparison
calibration_timed_out_strict(c, t) ==
    /\ c.calibration_command_sent
    /\ c.calibration_start_time # NoneValue
    /\ t - c.calibration_start_time > CALIBRATION_TIMEOUT

\* Whether the time-out check at the end of a poll fires.
calibration_timed_out(c, t) ==
    /\ c.calibration_command_sent
    /\ c.calibration_start_time # NoneValue
    /\ t - c.calibration_start_time >= CALIBRATION_TIMEOUT

\* The end of poll_and_update: the latest-frame slot, then the time-out check.
poll_finish(c, fd, t) ==
    LET c1 == IF fd # NoneValue THEN [c EXCEPT !.latest_frame_data = fd] ELSE c
    IN  IF calibration_timed_out(c1, t) THEN reset_calibration_state(c1) ELSE c1

(* ------------------------ AxisStudioConnector -------------------------- *)
\* AxisStudioConnectionState (DISCONNECTED and ERROR under the names the
\* connection states of MocapConnector leave free)
AXIS_DISCONNECTED == 0
LISTENING == 1
RECEIVING == 2
AXIS_ERROR == -1

\* seconds without data after which the listener counts as not receiving
data_timeout == 5

\* app is set by the first start_listening that reaches MCPApplication(), and
\* is_listening is only set after it: "not self.is_listening or not self.app"
\* is "not self.is_listening"
AxisStudioConnector ==
    [ is_listening      |-> FALSE,
      is_receiving_data |-> FALSE,
      latest_frame_data |-> NoneValue,
      connection_state  |-> AXIS_DISCONNECTED,
      last_data_time    |-> NoneValue ]

\* start_listening(): available says whether mocap_api was imported, open_ok
\* what app.open() reports
start_listening(c, available, open_ok, t) ==
    IF ~available THEN [c |-> c, ret |-> FALSE]
    ELSE IF open_ok
    THEN [c |-> [c EXCEPT !.connection_state = LISTENING,
                          !.is_listening = TRUE,
                          !.last_data_time = t],
          ret |-> TRUE]
    ELSE [c |-> [c EXCEPT !.connection_state = AXIS_ERROR], ret |-> FALSE]

stop_listening(c) ==
    [c EXCEPT !.is_listening = FALSE,
              !.is_receiving_data = FALSE,
              !.connection_state = AXIS_DISCONNECTED]

\* events a listening application hands to a poll
AxisEvents ==
    [type : {"AvatarUpdated"}, arg : 1..NumFrames]
    \cup [type : {"RigidBodyUpdated", "Error"}, arg : {0}]

\* one iteration of poll_and_update's loop over the events
axis_handle_event(c, e, t) ==
    IF e.type = "AvatarUpdated"
    THEN [c EXCEPT !.is_receiving_data = TRUE,
                   !.connection_state = IF c.is_receiving_data THEN @ ELSE RECEIVING,
                   !.last_data_time = t]
    ELSE c

\* the data time-out test at the end of poll_and_update
axis_data_timeout(c, t) ==
    IF /\ c.is_receiving_data
       /\ c.last_data_time # NoneValue
       /\ t - c.last_data_time > data_timeout
    THEN [c EXCEPT !.is_receiving_data = FALSE, !.connection_state = LISTENING]
    ELSE c

is_ready_for_recording(c) == c.is_receiving_data

\* threading.Lock(): the lock when no thread holds it
Unlocked == "unlocked"

\* the thread that calls get_latest_frame, outside the call
ReaderIdle == [at |-> "idle", got |-> NoneValue]

(* ------------------------- RecordingManager ---------------------------- *)
\* 1.0 / 60.0 in microseconds, as the six decimals of the export write it
FrameTime60 == 16667

RecordingManager ==
    [ recorded_frames |-> <<>>,
      is_recording    |-> FALSE,
      frame_time      |-> FrameTime60,
      frame_counter   |-> 0 ]

\* 1.0 / fps in microseconds, rounded as the six decimals of the export
frame_time_of(fps) == (2 * 1000000 + fps) \div (2 * fps)

\* the frame rates start_recording is called with
FpsValues == {30, 60}

\* start_recording without recorded_frames.clear()
start_recording_keeps_buffer(r, fps) ==
    [r EXCEPT !.is_recording = TRUE, !.frame_time = frame_time_of(fps),
              !.frame_counter = 0]

\* start_recording(fps=60.0)
start_recording(r, fps) ==
    [r EXCEPT !.recorded_frames = <<>>, !.is_recording = TRUE,
              !.frame_time = frame_time_of(fps), !.frame_counter = 0]

\* the recorder after the call, and the frame count it returns
stop_recording(r) ==
    [r |-> [r EXCEPT !.is_recording = FALSE], total_frames |-> Len(r.recorded_frames)]

\* record_frame without the test of is_recording
record_frame_always(r, joints_data) ==
    [r EXCEPT !.recorded_frames =
                  Append(@, [frame_index |-> r.frame_counter,
                             joints |-> joints_data]),
              !.frame_counter = @ + 1]

record_frame(r, joints_data) ==
    IF ~r.is_recording THEN r
    ELSE [r EXCEPT !.recorded_frames =
                       Append(@, [frame_index |-> r.frame_counter,
                                  joints |-> joints_data]),
                   !.frame_counter = @ + 1]

clear(r) ==
    [r EXCEPT !.recorded_frames = <<>>, !.frame_counter = 0, !.is_recording = FALSE]

get_frame_count(r) == Len(r.recorded_frames)

(* ------------------------------- files --------------------------------- *)
\* The text of a file is the sequence of its lines and a line the sequence of
\* its whitespace-separated words (what strip() and split() leave of it).
File(lines) == [exists |-> TRUE, lines |-> lines]
NoFile == [exists |-> FALSE, lines |-> <<>>]

(* --------------------------- numbers as text --------------------------- *)
\* Numbers read from a file (float(word)) are held in millionths, the
\* precision of the six decimals the export writes.  NumberWords pairs each
\* word of a number with its value.
SixDecimalWords ==
    << <<"0.000000", 0>>, <<"1.000000", 1000000>>, <<"2.000000", 2000000>>,
       <<"45.000000", 45000000>>, <<"90.000000", 90000000>>,
       <<"135.000000", 135000000>>, <<"180.000000", 180000000>>,
       <<"-45.000000", -45000000>>, <<"-90.000000", -90000000>>,
       <<"-135.000000", -135000000>>, <<"-180.000000", -180000000>>,
       <<"0.016667", 16667>>, <<"0.033333", 33333>>, <<"-0.000000", 0>> >>

NumberWords ==
    SixDecimalWords \o
    << <<"0.00", 0>>, <<"5.00", 5000000>>, <<"-5.00", -5000000>>,
       <<"8.00", 8000000>>, <<"-8.00", -8000000>>,
       <<"8.50", 8500000>>, <<"-8.50", -8500000>>, <<"10.00", 10000000>>,
       <<"12.00", 12000000>>, <<"-12.00", -12000000>>,
       <<"25.00", 25000000>>, <<"-25.00", -25000000>>, <<"-40.00", -40000000>>,
       <<"-7.85", -7850000>>, <<"14.28", 14280000>>, <<"16.45", 16450000>>,
       <<"0", 0>>, <<"1", 1000000>>, <<"2", 2000000>>, <<"3", 3000000>>,
       <<"4", 4000000>>, <<"5", 5000000>>, <<"6", 6000000>>, <<"90", 90000000>> >>

\* A word that is not in NumberWords, such as the first characters of a number
\* that a failed write left in a file, is read character by character: an
\* optional sign, then digits with at most one point among them, and at least
\* one digit ("0." and "-0" are numbers, "-" and "CHANN" are not).
Digits == "0123456789"
is_digit(c) == \E i \in 1..Len(Digits) : SubSeq(Digits, i, i) = c
digit(c) == (CHOOSE i \in 1..Len(Digits) : SubSeq(Digits, i, i) = c) - 1
unsigned(word) ==
    IF word # "" /\ SubSeq(word, 1, 1) \in {"-", "+"}
    THEN SubSeq(word, 2, Len(word)) ELSE word
is_decimal(word) ==
    LET body == unsigned(word)
        points == {i \in 1..Len(body) : SubSeq(body, i, i) = "."}
    IN /\ Cardinality(points) <= 1
       /\ Len(body) > Cardinality(points)
       /\ \A i \in (1..Len(body)) \ points : is_digit(SubSeq(body, i, i))
\* the value of a decimal, in millionths
RECURSIVE digits_value(_)
digits_value(word) ==
    IF word = "" THEN 0
    ELSE 10 * digits_value(SubSeq(word, 1, Len(word) - 1))
         + digit(SubSeq(word, Len(word), Len(word)))
decimal(word) ==
    LET body == unsigned(word)
        points == {i \in 1..Len(body) : SubSeq(body, i, i) = "."}
        point == IF points = {} THEN Len(body) + 1 ELSE CHOOSE i \in points : TRUE
        fraction == SubSeq(SubSeq(body, point + 1, Len(body)) \o "000000", 1, 6)
        magnitude == 1000000 * digits_value(SubSeq(body, 1, point - 1))
                     + digits_value(fraction)
    IN IF SubSeq(word, 1, 1) = "-" THEN -magnitude ELSE magnitude

\* float(word) succeeds on the words of numbers and raises ValueError otherwise
in_number_words(word) == \E i \in 1..Len(NumberWords) : NumberWords[i][1] = word
is_float(word) == in_number_words(word) \/ is_decimal(word)
float(word) ==
    IF in_number_words(word)
    THEN NumberWords[CHOOSE i \in 1..Len(NumberWords) : NumberWords[i][1] = word][2]
    ELSE decimal(word)

\* int(word) succeeds on digit strings only; IntWords pairs each digit string
\* with its value, and str(n) is the word of n
IntWords ==
    << <<"0", 0>>, <<"1", 1>>, <<"2", 2>>, <<"3", 3>>, <<"4", 4>>, <<"5", 5>>,
       <<"6", 6>>, <<"90", 90>> >>
is_int(word) == \E i \in 1..Len(IntWords) : IntWords[i][1] = word
int(word) == IntWords[CHOOSE i \in 1..Len(IntWords) : IntWords[i][1] = word][2]
str(n) == IntWords[CHOOSE i \in 1..Len(IntWords) : IntWords[i][2] = n][1]

\* f'{v:.6f}' of a value given in millionths
six_decimals(v) ==
    SixDecimalWords[CHOOSE i \in 1..Len(SixDecimalWords) : SixDecimalWords[i][2] = v][1]


(* ------------------------------ BVH export ----------------------------- *)
JOINT_ORDER ==
    << "Hips",
       "RightUpLeg", "RightLeg", "RightFoot",
       "LeftUpLeg", "LeftLeg", "LeftFoot",
       "Spine", "Spine1", "Spine2",
       "Neck", "Head",
       "RightShoulder", "RightArm", "RightForeArm", "RightHand",
       "LeftShoulder", "LeftArm", "LeftForeArm", "LeftHand" >>

FULL_JOINT_ORDER ==
    << "Hips",
       "RightUpLeg", "RightLeg", "RightFoot",
       "LeftUpLeg", "LeftLeg", "LeftFoot",
       "Spine", "Spine1", "Spine2",
       "Neck", "Neck1", "Head",
       "RightShoulder", "RightArm", "RightForeArm", "RightHand",
       "RightHandThumb1", "RightHandThumb2", "RightHandThumb3",
       "RightInHandIndex", "RightHandIndex1", "RightHandIndex2", "RightHandIndex3",
       "RightInHandMiddle", "RightHandMiddle1", "RightHandMiddle2", "RightHandMiddle3",
       "RightInHandRing", "RightHandRing1", "RightHandRing2", "RightHandRing3",
       "RightInHandPinky", "RightHandPinky1", "RightHandPinky2", "RightHandPinky3",
       "LeftShoulder", "LeftArm", "LeftForeArm", "LeftHand",
       "LeftHandThumb1", "LeftHandThumb2", "LeftHandThumb3",
       "LeftInHandIndex", "LeftHandIndex1", "LeftHandIndex2", "LeftHandIndex3",
       "LeftInHandMiddle", "LeftHandMiddle1", "LeftHandMiddle2", "LeftHandMiddle3",
       "LeftInHandRing", "LeftHandRing1", "LeftHandRing2", "LeftHandRing3",
       "LeftInHandPinky", "LeftHandPinky1", "LeftHandPinky2", "LeftHandPinky3" >>

\* JOINT_HIERARCHY; NoParent stands for None
NoParent == ""
JOINT_HIERARCHY ==
    [ Hips |-> NoParent,
      RightUpLeg |-> "Hips", RightLeg |-> "RightUpLeg", RightFoot |-> "RightLeg",
      LeftUpLeg |-> "Hips", LeftLeg |-> "LeftUpLeg", LeftFoot |-> "LeftLeg",
      Spine |-> "Hips", Spine1 |-> "Spine", Spine2 |-> "Spine1",
      Neck |-> "Spine2", Neck1 |-> "Neck", Head |-> "Neck1",
      RightShoulder |-> "Spine2", RightArm |-> "RightShoulder",
      RightForeArm |-> "RightArm", RightHand |-> "RightForeArm",
      LeftShoulder |-> "Spine2", LeftArm |-> "LeftShoulder",
      LeftForeArm |-> "LeftArm", LeftHand |-> "LeftForeArm" ]

\* JOINT_HIERARCHY.get(j)
hierarchy_get(j) == IF j \in DOMAIN JOINT_HIERARCHY THEN JOINT_HIERARCHY[j] ELSE NoParent

\* DEFAULT_OFFSETS, each component as the format :.2f writes it
DEFAULT_OFFSETS ==
    [ Hips |-> <<"0.00", "0.00", "0.00">>,
      RightUpLeg |-> <<"-8.50", "0.00", "0.00">>, RightLeg |-> <<"0.00", "-40.00", "0.00">>,
      RightFoot |-> <<"0.00", "-40.00", "0.00">>,
      LeftUpLeg |-> <<"8.50", "0.00", "0.00">>, LeftLeg |-> <<"0.00", "-40.00", "0.00">>,
      LeftFoot |-> <<"0.00", "-40.00", "0.00">>,
      Spine |-> <<"0.00", "10.00", "0.00">>, Spine1 |-> <<"0.00", "10.00", "0.00">>,
      Spine2 |-> <<"0.00", "10.00", "0.00">>,
      Neck |-> <<"0.00", "10.00", "0.00">>, Neck1 |-> <<"0.00", "5.00", "0.00">>,
      Head |-> <<"0.00", "8.00", "0.00">>,
      RightShoulder |-> <<"-5.00", "8.00", "0.00">>, RightArm |-> <<"-12.00", "0.00", "0.00">>,
      RightForeArm |-> <<"-25.00", "0.00", "0.00">>, RightHand |-> <<"-25.00", "0.00", "0.00">>,
      LeftShoulder |-> <<"5.00", "8.00", "0.00">>, LeftArm |-> <<"12.00", "0.00", "0.00">>,
      LeftForeArm |-> <<"25.00", "0.00", "0.00">>, LeftHand |-> <<"25.00", "0.00", "0.00">> ]

\* END_SITES, each component as the format :.2f writes it
END_SITES ==
    [ RightFoot |-> <<"0.00", "-7.85", "14.28">>,
      LeftFoot |-> <<"0.00", "-7.85", "14.28">>,
      Head |-> <<"0.00", "16.45", "0.00">>,
      RightHand |-> <<"-8.00", "0.00", "0.00">>,
      LeftHand |-> <<"8.00", "0.00", "0.00">> ]

\* A line of the text is its prefix (a number of spaces) and its words, with
\* one space between two words; "\n" ends every line that is written.
Line(prefix, words) == [prefix |-> prefix, words |-> words]

RECURSIVE write_joint(_, _, _, _), write_children(_, _, _)
write_joint(joints_to_export, joint_name, indent, is_root) ==
    LET prefix == 4 * indent
        offset == IF joint_name \in DOMAIN DEFAULT_OFFSETS
                  THEN DEFAULT_OFFSETS[joint_name] ELSE <<"0.00", "0.00", "0.00">>
        children == SelectSeq(joints_to_export,
                              LAMBDA j : hierarchy_get(j) = joint_name)
    IN << Line(prefix, <<(IF is_root THEN "ROOT" ELSE "JOINT"), joint_name>>),
          Line(prefix, <<"{">>),
          Line(prefix + 4, <<"OFFSET">> \o offset),
          Line(prefix + 4,
               IF is_root
               THEN <<"CHANNELS", "6", "Xposition", "Yposition", "Zposition",
                      "Zrotation", "Xrotation", "Yrotation">>
               ELSE <<"CHANNELS", "3", "Zrotation", "Xrotation", "Yrotation">>) >>
       \o write_children(joints_to_export, children, indent + 1)
       \o (IF children = <<>> /\ joint_name \in DOMAIN END_SITES
           THEN << Line(prefix + 4, <<"End", "Site">>),
                   Line(prefix + 4, <<"{">>),
                   Line(prefix + 8, <<"OFFSET">> \o END_SITES[joint_name]),
                   Line(prefix + 4, <<"}">>) >>
           ELSE <<>>)
       \o << Line(prefix, <<"}">>) >>

write_children(joints_to_export, children, indent) ==
    IF children = <<>> THEN <<>>
    ELSE write_joint(joints_to_export, Head(children), indent, FALSE)
         \o write_children(joints_to_export, Tail(children), indent)

generate_hierarchy(joints_to_export) ==
    << Line(0, <<"HIERARCHY">>) >> \o write_joint(joints_to_export, "Hips", 0, TRUE)


\* A float of the conversion is a whole number v with the sign bit of its
\* IEEE 754 representation: 0.0 and -0.0 are different floats.
as_float(v) == [v |-> v, negative |-> v < 0]
\* a * b: the sign of a product is the product of the signs, also for zeros
float_mul(a, b) == [v |-> a.v * b.v, negative |-> a.negative # b.negative]
\* a - b and a + b: a zero difference is -0.0 only for (-0.0) - 0.0, a zero sum
\* only for (-0.0) + (-0.0)
float_sub(a, b) ==
    [v |-> a.v - b.v,
     negative |-> IF a.v - b.v # 0 THEN a.v - b.v < 0
                  ELSE a.v = 0 /\ a.negative /\ ~b.negative]
float_add(a, b) ==
    [v |-> a.v + b.v,
     negative |-> IF a.v + b.v # 0 THEN a.v + b.v < 0
                  ELSE a.v = 0 /\ a.negative /\ b.negative]
float_neg(a) == [v |-> -a.v, negative |-> ~a.negative]

\* math.degrees(math.atan2(y, x)) on the matrix elements of a quaternion whose
\* components are -1, 0 or 1: atan2 of a zero y has the sign of y, and it is a
\* half turn when x is negative
atan2_degrees(y, x) ==
    CASE y.v = 0 /\ (x.v > 0 \/ (x.v = 0 /\ ~x.negative)) ->
             [v |-> 0, negative |-> y.negative]
      [] y.v = 0 /\ (x.v < 0 \/ (x.v = 0 /\ x.negative)) ->
             [v |-> IF y.negative THEN -180 ELSE 180, negative |-> y.negative]
      [] y.v > 0 /\ x.v = 0 -> as_float(90)
      [] y.v < 0 /\ x.v = 0 -> as_float(-90)
      [] y.v > 0 /\ x.v > 0 -> as_float(45)
      [] y.v > 0 /\ x.v < 0 -> as_float(135)
      [] y.v < 0 /\ x.v > 0 -> as_float(-45)
      [] y.v < 0 /\ x.v < 0 -> as_float(-135)

\* A unit quaternion is written with whole numbers: (w, x, y, z) stands for
\* (w, x, y, z) / sqrt(w*w + x*x + y*y + z*z), a component 0 for 0.0.  The
\* quaternions of the 24 rotations that map the axes to axes have components
\* -1, 0, 1 and a squared norm of 1, 2 or 4, and every element of their
\* matrices is -1, 0 or 1.
squared_norm(w, x, y, z) ==
    IF w*w + x*x + y*y + z*z = 0 THEN 1 ELSE w*w + x*x + y*y + z*z

\* an element of the matrix, computed on the whole numbers, for the unit
\* quaternion
normalized(a, n) == [v |-> a.v \div n, negative |-> a.negative]

\* quaternion_to_euler_zxy(w, x, y, z): (z_rot, x_rot, y_rot) in degrees, each
\* a float.  With whole matrix elements abs(m21) < 0.99999 says m21 = 0, and
\* asin(-m21) is the zero of the sign of -m21.
quaternion_to_euler_zxy(w, x, y, z) ==
    LET n == squared_norm(w, x, y, z)
        twice(a, b) == float_mul(float_mul(as_float(2), as_float(a)), as_float(b))
        m00 == as_float((n - 2*y*y - 2*z*z) \div n)
        m01 == normalized(float_sub(twice(x, y), twice(z, w)), n)
        m10 == normalized(float_add(twice(x, y), twice(z, w)), n)
        m11 == as_float((n - 2*x*x - 2*z*z) \div n)
        m20 == normalized(float_sub(twice(x, z), twice(y, w)), n)
        m21 == normalized(float_add(twice(y, z), twice(x, w)), n)
        m22 == as_float((n - 2*x*x - 2*y*y) \div n)
    IN IF m21.v = 0
       THEN << atan2_degrees(m01, m11), [v |-> 0, negative |-> ~m21.negative],
               atan2_degrees(m20, m22) >>
       ELSE << atan2_degrees(float_neg(m10), m00),
               (IF m21.v > 0 THEN as_float(-90) ELSE as_float(90)), as_float(0) >>

DefaultJointData == [position |-> <<0, 0, 0>>, rotation |-> <<1, 0, 0, 0>>]

\* f'{v:.6f}' of a float of whole degrees: -0.0 is written with its sign
six_decimals_of_float(a) ==
    IF a.v = 0 /\ a.negative THEN "-0.000000" ELSE six_decimals(a.v * 1000000)

\* one line of motion data: the words of the values of every joint to export
RECURSIVE generate_frame_line(_, _)
generate_frame_line(frame, joints_to_export) ==
    IF joints_to_export = <<>> THEN <<>>
    ELSE IF Len(joints_to_export) > 1
    THEN \* the loop over the joints, evaluated in halves
         LET h == Len(joints_to_export) \div 2
         IN generate_frame_line(frame, SubSeq(joints_to_export, 1, h))
            \o generate_frame_line(frame, SubSeq(joints_to_export, h + 1,
                                                 Len(joints_to_export)))
    ELSE LET joint_name == Head(joints_to_export)
             joint_data == IF joint_name \in DOMAIN frame.joints
                           THEN frame.joints[joint_name] ELSE DefaultJointData
             pos == joint_data.position
             rot == joint_data.rotation
             euler == quaternion_to_euler_zxy(rot[1], rot[2], rot[3], rot[4])
             values == IF joint_name = "Hips" THEN pos ELSE <<>>
         IN [i \in 1..Len(values) |-> six_decimals(values[i] * 1000000)]
            \o << six_decimals_of_float(euler[1]), six_decimals_of_float(euler[2]),
                  six_decimals_of_float(euler[3]) >>

\* the joints export_to_bvh selects (lines 269-275)
joints_to_export_of(r, include_fingers) ==
    LET available_joints == DOMAIN r.recorded_frames[1].joints
    IN SelectSeq(IF include_fingers THEN FULL_JOINT_ORDER ELSE JOINT_ORDER,
                 LAMBDA j : j \in available_joints \/ j = "Hips")

\* the text export_to_bvh writes, line by line
bvh_text(r, joints_to_export) ==
    generate_hierarchy(joints_to_export)
    \o << Line(0, <<"MOTION">>),
          Line(0, <<"Frames:", str(Len(r.recorded_frames))>>),
          Line(0, <<"Frame", "Time:", six_decimals(r.frame_time)>>) >>
    \o [i \in 1..Len(r.recorded_frames) |->
           Line(0, generate_frame_line(r.recorded_frames[i], joints_to_export))]

\* what strip() and split() leave of the lines of a text
split_lines(text) == [i \in 1..Len(text) |-> text[i].words]

\* the bytes of the words lo..hi and of the single spaces after each of them
\* (the text is ASCII: one byte per character), added up in halves
RECURSIVE words_bytes(_, _, _)
words_bytes(words, lo, hi) ==
    IF lo > hi THEN 0
    ELSE IF lo = hi THEN Len(words[lo]) + 1
    ELSE LET m == (lo + hi) \div 2
         IN words_bytes(words, lo, m) + words_bytes(words, m + 1, hi)

\* the bytes of a line and its "\n", and of the lines lo..hi of a text
line_bytes(line) == line.prefix + words_bytes(line.words, 1, Len(line.words))
RECURSIVE lines_bytes(_, _, _)
lines_bytes(text, lo, hi) ==
    IF lo > hi THEN 0
    ELSE IF lo = hi THEN line_bytes(text[lo])
    ELSE LET m == (lo + hi) \div 2
         IN lines_bytes(text, lo, m) + lines_bytes(text, m + 1, hi)
text_bytes(text) == lines_bytes(text, 1, Len(text))

\* the words of the first n bytes of the words lo..hi: whole words, and the
\* first characters of the word the n bytes end in
RECURSIVE cut_words(_, _, _, _)
cut_words(words, lo, hi, n) ==
    IF lo > hi \/ n <= 0 THEN <<>>
    ELSE IF lo = hi
    THEN << IF n >= Len(words[lo]) THEN words[lo] ELSE SubSeq(words[lo], 1, n) >>
    ELSE LET m == (lo + hi) \div 2
             b == words_bytes(words, lo, m)
         IN IF n >= b
            THEN SubSeq(words, lo, m) \o cut_words(words, m + 1, hi, n - b)
            ELSE cut_words(words, lo, m, n)

\* the lines of words of the first n bytes of the lines lo..hi; a last line
\* of which only spaces were written is a line without words
RECURSIVE cut_lines(_, _, _, _)
cut_lines(text, lo, hi, n) ==
    IF lo > hi \/ n <= 0 THEN <<>>
    ELSE IF lo = hi
    THEN << cut_words(text[lo].words, 1, Len(text[lo].words), n - text[lo].prefix) >>
    ELSE LET m == (lo + hi) \div 2
             b == lines_bytes(text, lo, m)
         IN IF n >= b
            THEN split_lines(SubSeq(text, lo, m)) \o cut_lines(text, m + 1, hi, n - b)
            ELSE cut_lines(text, lo, m, n)
cut_text(text, n) == cut_lines(text, 1, Len(text), n)

\* the destination after the writes of export_to_bvh and the close of the
\* file: room is the number of bytes the destination takes (Unlimited: any
\* number).  The text goes through the buffer of the file object, so the
\* destination holds the first room bytes of it, cut where they end.
Unlimited == -1
written(text, room) ==
    IF room = Unlimited THEN File(split_lines(text)) ELSE File(cut_text(text, room))

\* whether every byte of the text reached the destination: if not, a write or
\* the close raises OSError inside the try
fits(text, room) == room = Unlimited \/ room >= text_bytes(text)

\* export_to_bvh without the test of the empty buffer
export_to_bvh_writes_empty(r, file, writable, room, include_fingers) ==
    IF ~writable THEN [r |-> r, fs |-> file, ret |-> FALSE, raised |-> FALSE]
    ELSE LET text == IF r.recorded_frames = <<>>
                     THEN << Line(0, <<"HIERARCHY">>), Line(0, <<"MOTION">>),
                             Line(0, <<"Frames:", "0">>) >>
                     ELSE bvh_text(r, joints_to_export_of(r, include_fingers))
         IN [r |-> r, fs |-> written(text, room),
             ret |-> fits(text, room), raised |-> FALSE]

\* export_to_bvh(file_path, include_fingers): the recorder and the file after
\* the call, the value returned, and whether an exception left the call;
\* writable says whether open(file_path, 'w') succeeds, and room how many
\* bytes the destination takes: when the text does not fit, the file is left
\* with the bytes that did and False is returned
export_to_bvh(r, file, writable, room, include_fingers) ==
    IF r.recorded_frames = <<>>
    THEN [r |-> r, fs |-> file, ret |-> FALSE, raised |-> FALSE]
    ELSE IF ~writable
    THEN [r |-> r, fs |-> file, ret |-> FALSE, raised |-> FALSE]
    ELSE LET text == bvh_text(r, joints_to_export_of(r, include_fingers))
         IN [r |-> r, fs |-> written(text, room),
             ret |-> fits(text, room), raised |-> FALSE]


(* ------------------------------ BVH parser ----------------------------- *)
\* np.identity(4)
Identity4 == <<<<1, 0, 0, 0>>, <<0, 1, 0, 0>>, <<0, 0, 1, 0>>, <<0, 0, 0, 1>>>>

\* Joint.__init__: joints live in an arena (a sequence) and are named by their
\* position in it; parent 0 is None
Joint(name, parent) ==
    [ name |-> name, parent |-> parent, children |-> <<>>,
      offset |-> <<0, 0, 0>>, channels |-> <<>>, channel_indices |-> <<>>,
      end_site |-> NoneValue, channel_start_index |-> 0 ]

\* a set_channels that numbers the channels of each joint from zero
set_channels_per_joint(joint, channels, channel_start_index) ==
    [joint EXCEPT
       !.channels = channels,
       !.channel_start_index = 0,
       !.channel_indices =
           [c \in DOMAIN @ \cup {channels[i] : i \in 1..Len(channels)} |->
               IF \E i \in 1..Len(channels) : channels[i] = c
               THEN (CHOOSE i \in 1..Len(channels) : channels[i] = c) - 1
               ELSE @[c]]]

\* Joint.set_channels
set_channels(joint, channels, channel_start_index) ==
    [joint EXCEPT
       !.channels = channels,
       !.channel_start_index = channel_start_index,
       !.channel_indices =
           [c \in DOMAIN @ \cup {channels[i] : i \in 1..Len(channels)} |->
               IF \E i \in 1..Len(channels) : channels[i] = c
               THEN channel_start_index - 1
                    + (CHOOSE i \in 1..Len(channels) :
                          /\ channels[i] = c
                          /\ \A k \in (i+1)..Len(channels) : channels[k] # c)
               ELSE @[c]]]

\* the parser's local variables before the first line
ParserStart ==
    [ line_index |-> 1, stack |-> <<>>, arena |-> <<>>, joints |-> <<>>,
      root_joint |-> NoneValue, channel_count |-> 0, raised |-> FALSE,
      motion_data |-> <<>>, frames |-> 0, frame_time |-> 0 ]

Raise(st) == [st EXCEPT !.raised = TRUE]
Advance(st, n) == [st EXCEPT !.line_index = @ + n]
Rest(words) == IF words = <<>> THEN <<>> ELSE Tail(words)
AllFloats(words) == \A i \in 1..Len(words) : is_float(words[i])
Floats(words) == [i \in 1..Len(words) |-> float(words[i])]

\* the End Site branch (lines 763-767)
end_site(lines, st) ==
    IF st.line_index + 2 > Len(lines) THEN Raise(st)
    ELSE IF ~AllFloats(Rest(lines[st.line_index + 2])) \/ st.stack = <<>> THEN Raise(st)
    ELSE Advance([st EXCEPT !.arena[st.stack[Len(st.stack)]].end_site =
                      Floats(Rest(lines[st.line_index + 2]))], 4)

\* one iteration of the first loop of parse_bvh on line parts
hierarchy_line(lines, st, parts) ==
    LET top == st.stack[Len(st.stack)]
    IN
    IF parts = <<>> THEN Advance(st, 1)
    ELSE IF parts[1] = "HIERARCHY" THEN Advance(st, 1)
    ELSE IF parts[1] = "ROOT" \/ parts[1] = "JOINT" THEN
        IF Len(parts) < 2 THEN Raise(st)
        ELSE LET id == Len(st.arena) + 1
                 new_joint == Joint(parts[2], IF st.stack # <<>> THEN top ELSE NoneValue)
                 arena1 == Append(st.arena, new_joint)
             IN Advance([st EXCEPT
                    !.root_joint = IF @ = NoneValue THEN id ELSE @,
                    !.joints = [n \in DOMAIN @ \cup {parts[2]} |->
                                   IF n = parts[2] THEN id ELSE @[n]],
                    !.arena = IF st.stack # <<>>
                              THEN [arena1 EXCEPT ![top].children = Append(@, id)]
                              ELSE arena1,
                    !.stack = Append(@, id)], 1)
    ELSE IF parts[1] = "{" THEN Advance(st, 1)
    ELSE IF parts[1] = "OFFSET" THEN
        IF ~AllFloats(Tail(parts)) \/ st.stack = <<>> THEN Raise(st)
        ELSE Advance([st EXCEPT !.arena[top].offset = Floats(Tail(parts))], 1)
    ELSE IF parts[1] = "CHANNELS" THEN
        IF Len(parts) < 2 THEN Raise(st)
        ELSE IF ~is_int(parts[2]) \/ st.stack = <<>> THEN Raise(st)
        ELSE Advance([st EXCEPT
                 !.arena[top] = set_channels(@, Tail(Tail(parts)), st.channel_count),
                 !.channel_count = @ + int(parts[2])], 1)
    ELSE IF parts[1] = "End" /\ Len(parts) < 2 THEN Raise(st)
    ELSE IF parts[1] = "End" /\ parts[2] = "Site" THEN end_site(lines, st)
    ELSE IF parts[1] = "}" THEN
        Advance([st EXCEPT !.stack = IF @ # <<>> THEN SubSeq(@, 1, Len(@) - 1) ELSE @], 1)
    ELSE Advance(st, 1)

\* the first loop: up to the line MOTION.  Every iteration moves line_index
\* forward or raises, so the loop has ended after Len(lines) iterations; the
\* iterations are evaluated in halves
parse_hierarchy(lines, st) ==
    LET iteration(s) ==
            IF s.raised \/ s.line_index > Len(lines) THEN s
            ELSE IF lines[s.line_index] = <<"MOTION">> THEN s
            ELSE hierarchy_line(lines, s, lines[s.line_index])
        RECURSIVE iterations(_, _)
        iterations(s, n) ==
            IF n = 0 THEN s
            ELSE IF n = 1 THEN iteration(s)
            ELSE LET half == iterations(s, n \div 2)
                 IN  IF half.raised THEN half
                     ELSE iterations(half, n - (n \div 2))
    IN  iterations(st, Len(lines))

\* one iteration of the second loop
\* a motion branch that puts each frame in front of the frames read before it
motion_line_newest_first(st, parts) ==
    IF parts = <<>> THEN Advance(st, 1)
    ELSE IF parts[1] = "MOTION" THEN Advance(st, 1)
    ELSE IF parts[1] = "Frames:" THEN
        IF Len(parts) < 2 THEN Raise(st)
        ELSE IF ~is_int(parts[2]) THEN Raise(st)
        ELSE Advance([st EXCEPT !.frames = int(parts[2])], 1)
    ELSE IF parts[1] = "Frame" /\ Len(parts) < 2 THEN Raise(st)
    ELSE IF parts[1] = "Frame" /\ parts[2] = "Time:" THEN
        IF Len(parts) < 3 THEN Raise(st)
        ELSE IF ~is_float(parts[3]) THEN Raise(st)
        ELSE Advance([st EXCEPT !.frame_time = float(parts[3])], 1)
    ELSE IF ~AllFloats(parts) THEN Raise(st)
    ELSE Advance([st EXCEPT !.motion_data = <<Floats(parts)>> \o @], 1)

motion_line(st, parts) ==
    IF parts = <<>> THEN Advance(st, 1)
    ELSE IF parts[1] = "MOTION" THEN Advance(st, 1)
    ELSE IF parts[1] = "Frames:" THEN
        IF Len(parts) < 2 THEN Raise(st)
        ELSE IF ~is_int(parts[2]) THEN Raise(st)
        ELSE Advance([st EXCEPT !.frames = int(parts[2])], 1)
    ELSE IF parts[1] = "Frame" /\ Len(parts) < 2 THEN Raise(st)
    ELSE IF parts[1] = "Frame" /\ parts[2] = "Time:" THEN
        IF Len(parts) < 3 THEN Raise(st)
        ELSE IF ~is_float(parts[3]) THEN Raise(st)
        ELSE Advance([st EXCEPT !.frame_time = float(parts[3])], 1)
    ELSE IF ~AllFloats(parts) THEN Raise(st)
    ELSE Advance([st EXCEPT !.motion_data = Append(@, Floats(parts))], 1)

\* the second loop, to the end of the lines
parse_motion(lines, st) ==
    LET iteration(s) ==
            IF s.raised \/ s.line_index > Len(lines) THEN s
            ELSE motion_line(s, lines[s.line_index])
        RECURSIVE iterations(_, _)
        iterations(s, n) ==
            IF n = 0 THEN s
            ELSE IF n = 1 THEN iteration(s)
            ELSE LET half == iterations(s, n \div 2)
                 IN  IF half.raised THEN half
                     ELSE iterations(half, n - (n \div 2))
    IN  iterations(st, Len(lines))

\* what parse_bvh returns when the file cannot be read: (None, {}, [], 0, 0)
ParseFailure ==
    [ raised |-> FALSE, root_joint |-> NoneValue, joints |-> <<>>, arena |-> <<>>,
      motion_data |-> <<>>, frames |-> 0, frame_time |-> 0 ]

\* parse_bvh(file_path): (root_joint, joints, motion_data, frames, frame_time),
\* the joints themselves (arena), and whether an exception left the call
parse_bvh(file) ==
    IF ~file.exists THEN ParseFailure
    ELSE LET first == parse_hierarchy(file.lines, ParserStart)
             st == IF first.raised THEN first ELSE parse_motion(file.lines, first)
         IN [ raised |-> st.raised, root_joint |-> st.root_joint,
              joints |-> st.joints, arena |-> st.arena,
              motion_data |-> st.motion_data, frames |-> st.frames,
              frame_time |-> st.frame_time ]


(* ------------- the objects behind a real-time frame (heap) ------------- *)
\* A reference is an index into heap.  A dict object has items (key -> reference);
\* a value object is a tuple (immutable) or a list (mutable in place) holding v.
DictObject(items) == [kind |-> "dict", items |-> items]
ValueObject(kind, v) == [kind |-> kind, v |-> v]

\* the map the caller passes to record_frame: {'Hips': {'position': .., 'rotation': ..}}
CallerMap == 1
CallerHeap(kind, pv, rv) ==
    << DictObject([n \in {"Hips"} |-> 2]),
       DictObject([k \in {"position", "rotation"} |-> IF k = "position" THEN 3 ELSE 4]),
       ValueObject(kind, pv),
       ValueObject(kind, rv) >>

\* data.get(key, default): the stored reference, or a fresh default tuple
dict_get(h, data, key) ==
    IF key \in DOMAIN h[data].items
    THEN [h |-> h, ref |-> h[data].items[key]]
    ELSE [h |-> Append(h, ValueObject("tuple", 0)), ref |-> Len(h) + 1]

\* the loop of record_frame over joints_data.items(): one new dict per joint,
\* holding the references data.get returned
RECURSIVE joints_copy_loop(_, _, _, _)
joints_copy_loop(h, joints_data, todo, copy) ==
    IF todo = {} THEN [h |-> Append(h, DictObject(copy)), ref |-> Len(h) + 1]
    ELSE LET name == CHOOSE n \in todo : TRUE
             data == h[joints_data].items[name]
             p == dict_get(h, data, "position")
             r == dict_get(p.h, data, "rotation")
             entry == DictObject([k \in {"position", "rotation"} |->
                                     IF k = "position" THEN p.ref ELSE r.ref])
             h2 == Append(r.h, entry)
         IN joints_copy_loop(h2, joints_data, todo \ {name},
                             [n \in DOMAIN copy \cup {name} |->
                                 IF n = name THEN Len(h2) ELSE copy[n]])

joints_copy(h, joints_data) ==
    joints_copy_loop(h, joints_data, DOMAIN h[joints_data].items, <<>>)

\* get_playback_frame(frame_index): frame.joints itself, or None
get_playback_frame(r, frame_index) ==
    IF 0 <= frame_index /\ frame_index < Len(r.recorded_frames)
    THEN r.recorded_frames[frame_index + 1].joints
    ELSE NoneValue

\* what _generate_frame_line reads of a buffered frame: per joint, the
\* position and the rotation values
FrameContent(h, joints) ==
    [n \in DOMAIN h[joints].items |->
        [k \in DOMAIN h[h[joints].items[n]].items |->
            h[h[h[joints].items[n]].items[k]].v]]


(* ------------------- the viewer's real-time functions ------------------ *)
\* MOCAP_SDK_AVAILABLE, AXIS_STUDIO_AVAILABLE and RECORDING_AVAILABLE: whether
\* the imports of mocap_connector, axis_studio_connector and recording_manager
\* succeeded when the viewer was loaded
Imports == [mocap : BOOLEAN, axis : BOOLEAN, recording : BOOLEAN]
AllImported == [mocap |-> TRUE, axis |-> TRUE, recording |-> TRUE]

\* AppState.init_mocap_mode() and AppState.init_secap_mode(): the value
\* returned (the connector and the recorder they create are the fresh objects
\* the model starts with)
init_mocap_mode(imp) == imp.mocap
init_secap_mode(imp) == imp.axis

\* toggle_connection, Mocap branch
toggle_connection(c, open_ok) ==
    IF ~c.is_connected
    THEN LET o == connect(c, open_ok)
         IN  IF o.ret THEN start_capture(o.c) ELSE o
    ELSE LET s == stop_capture(c)
             d == disconnect(s.c)
         IN  Outcome(d.c, FALSE, s.out \o d.out)

\* toggle_connection, Secap branch
toggle_connection_secap(a, available, open_ok, t) ==
    IF ~a.is_listening THEN start_listening(a, available, open_ok, t).c
    ELSE stop_listening(a)

\* toggle_recording: the recorder after the call; a recorder exists in the
\* real-time modes when recording_manager was imported
toggle_recording(m, c, a, r, imp) ==
    IF m \notin {MOCAP, SECAP} \/ ~imp.recording THEN r
    ELSE LET can_record == IF m = MOCAP
                           THEN c.is_connected /\ is_ready_for_record(c)
                           ELSE is_ready_for_recording(a)
             asked == IF m = MOCAP THEN c.is_connected ELSE TRUE
         IN  IF asked /\ ~can_record /\ ~r.is_recording THEN r
             ELSE IF ~r.is_recording
             THEN IF can_record THEN start_recording(r, 60) ELSE r
             ELSE stop_recording(r).r

\* start_calibration of the viewer (key K)
ui_start_calibration(m, c, t) ==
    IF m # MOCAP THEN Outcome(c, FALSE, <<>>)
    ELSE IF ~c.is_connected THEN Outcome(c, FALSE, <<>>)
    ELSE IF c.capture_phase = STABILIZING THEN Outcome(c, FALSE, <<>>)
    ELSE IF can_start_calibration(c) THEN start_calibration(c, t)
    ELSE Outcome(c, FALSE, <<>>)

\* toggle_mode: what it does to the connector when the Mocap mode is left
toggle_mode_connector(m, c) ==
    IF m = MOCAP /\ c.is_connected
    THEN LET s == stop_capture(c)
             d == disconnect(s.c)
         IN  Outcome(d.c, FALSE, s.out \o d.out)
    ELSE Outcome(c, FALSE, <<>>)

\* toggle_mode: what it does to the listener when the Secap mode is left
toggle_mode_listener(m, a) ==
    IF m = SECAP /\ a.is_listening THEN stop_listening(a) ELSE a

\* toggle_mode: what it does to the recorder
toggle_mode_recorder(r) == IF r.is_recording THEN stop_recording(r).r ELSE r

\* toggle_mode: Offline -> Mocap -> Secap -> Offline, a real-time mode being
\* entered only when its module initialises
toggle_mode_next(m, imp) ==
    IF m = OFFLINE THEN (IF init_mocap_mode(imp) THEN MOCAP ELSE OFFLINE)
    ELSE IF m = MOCAP THEN (IF init_secap_mode(imp) THEN SECAP ELSE MOCAP)
    ELSE OFFLINE

(* ------------------------------ Init ----------------------------------- *)
Init ==
    /\ mc = MocapConnector
    /\ rm = RecordingManager
    /\ mode = OFFLINE
    /\ now = 1
    /\ pc = "idle"
    /\ nev = 0
    /\ ev = [type |-> "None", arg |-> 0]
    /\ frame_data = NoneValue
    /\ op = "init"
    /\ ret = FALSE
    /\ total_frames = 0
    /\ out = <<>>
    /\ heap = <<>>
    /\ handed = NoneValue
    /\ fs = NoFile
    /\ parsed = NoneValue
    /\ matrix = <<>>
    /\ arg = NoneValue
    /\ ax = AxisStudioConnector
    /\ lock = Unlocked
    /\ reader = ReaderIdle
    /\ pending = <<>>
    /\ imported = AllImported

\* time passes between operations
Tick ==
    /\ pc = "idle"
    /\ now + TickStep <= MaxTime
    /\ now' = now + TickStep
    /\ op' = "tick"
    /\ UNCHANGED <<offlineVars, mc, rm, mode, pc, nev, ev, frame_data, ret, total_frames, out>>

(* ------------------ the connector's interface, called directly --------- *)
Call(name, o) ==
    /\ pc = "idle"
    /\ mc' = o.c
    /\ ret' = o.ret
    /\ out' = o.out
    /\ op' = name
    /\ UNCHANGED <<offlineVars, rm, mode, now, pc, nev, ev, frame_data, total_frames>>

Connect == \E open_ok \in BOOLEAN : Call("connect", connect(mc, open_ok))
Disconnect == Call("disconnect", disconnect(mc))
StartCapture == Call("start_capture", start_capture(mc))
StopCapture == Call("stop_capture", stop_capture(mc))
StartCalibration == Call("start_calibration", start_calibration(mc, now))

\* poll_and_update, lines 348-354: the early return, or the events are fetched
PollBegin ==
    /\ pc = "idle"
    /\ op' = "poll_and_update"
    /\ out' = <<>>
    /\ ret' = FALSE
    /\ frame_data' = NoneValue
    /\ nev' = 0
    /\ pc' = IF mc.is_connected THEN "events" ELSE "idle"
    /\ UNCHANGED <<offlineVars, mc, rm, mode, now, ev, total_frames>>

\* one iteration of the event loop
PollEvent ==
    /\ pc = "events"
    /\ nev < MaxBatch
    /\ \E e \in Events :
         /\ mc' = handle_event(mc, e, now)
         /\ ev' = e
         /\ frame_data' = IF e.type = "AvatarUpdated" THEN e.arg ELSE frame_data
    /\ nev' = nev + 1
    /\ UNCHANGED <<offlineVars, rm, mode, now, pc, op, ret, total_frames, out>>

\* after the loop: latest frame, calibration time-out, return
NoEvent == [type |-> "None", arg |-> 0]

(* ------------------------ the latest-frame slot ------------------------ *)
\* poll_and_update and get_latest_frame, statement by statement, for the
\* connector of the mode in use: the poll runs on the main loop's thread,
\* get_latest_frame on another thread.  A lock that lets every thread in:
lock_free_always(l) == TRUE
\* threading.Lock: "with self._lock" goes on only while no thread holds it
lock_free(l) == l = Unlocked

\* the slot of the connector in use, and whether its poll goes past line 348
\* (line 146)
Slot == IF mode = SECAP THEN ax.latest_frame_data ELSE mc.latest_frame_data
PollGoesOn == IF mode = SECAP THEN ax.is_listening ELSE mc.is_connected

\* "if frame_data: with self._lock:" the lock is taken
SlotPollAcquire ==
    /\ pc = "events"
    /\ frame_data # NoneValue
    /\ lock_free(lock)
    /\ lock' = "poll_and_update"
    /\ pc' = "locked"
    /\ UNCHANGED <<mc, rm, mode, now, nev, ev, frame_data, op, ret, total_frames, out,
                   heap, handed, fs, parsed, matrix, arg, ax, reader, pending, imported>>

\* "self.latest_frame_data = frame_data"
SlotPollWrite ==
    /\ pc = "locked"
    /\ mc' = IF mode = SECAP THEN mc ELSE [mc EXCEPT !.latest_frame_data = frame_data]
    /\ ax' = IF mode = SECAP THEN [ax EXCEPT !.latest_frame_data = frame_data] ELSE ax
    /\ pc' = "written"
    /\ UNCHANGED <<rm, mode, now, nev, ev, frame_data, op, ret, total_frames, out,
                   heap, handed, fs, parsed, matrix, arg, lock, reader, pending, imported>>

\* the end of the with block
SlotPollRelease ==
    /\ pc = "written"
    /\ lock' = Unlocked
    /\ pc' = "after"
    /\ UNCHANGED <<mc, rm, mode, now, nev, ev, frame_data, op, ret, total_frames, out,
                   heap, handed, fs, parsed, matrix, arg, ax, reader, pending, imported>>

\* the time-out test, and the return of frame_data to the caller, whose
\* position after the call is after_call
PollReturn(after_call) ==
    /\ pc = "after" \/ (pc = "events" /\ frame_data = NoneValue)
    /\ mc' = IF mode = SECAP THEN mc ELSE poll_finish(mc, NoneValue, now)
    /\ ax' = IF mode = SECAP THEN axis_data_timeout(ax, now) ELSE ax
    /\ pc' = after_call
    /\ nev' = 0
    /\ ev' = NoEvent
    /\ UNCHANGED <<rm, mode, now, frame_data, op, ret, total_frames, out,
                   heap, handed, fs, parsed, matrix, arg, lock, reader, pending, imported>>

\* poll_and_update called on its own
SlotPollReturn == PollReturn("idle")

NextConn ==
    \/ Tick
    \/ Connect
    \/ Disconnect
    \/ StartCapture
    \/ StopCapture
    \/ StartCalibration
    \/ PollBegin
    \/ PollEvent
    \/ SlotPollAcquire
    \/ SlotPollWrite
    \/ SlotPollRelease
    \/ SlotPollReturn

SpecConn == Init /\ [][NextConn]_vars

(* ----------------- the recorder's interface, called directly ----------- *)
RmCall(name, r, n) ==
    /\ rm' = r
    /\ total_frames' = n
    /\ op' = name
    /\ UNCHANGED <<offlineVars, mc, mode, now, pc, nev, ev, frame_data, ret, out>>

StartRecording ==
    \E fps \in FpsValues : RmCall("start_recording", start_recording(rm, fps), total_frames)

StopRecording ==
    RmCall("stop_recording", stop_recording(rm).r, stop_recording(rm).total_frames)

RecordFrame ==
    /\ rm.is_recording => Len(rm.recorded_frames) < MaxFrames
    /\ \E joints_data \in 1..NumFrames :
         RmCall("record_frame", record_frame(rm, joints_data), total_frames)

Clear == RmCall("clear", clear(rm), total_frames)

NextRec ==
    \/ StartRecording
    \/ StopRecording
    \/ RecordFrame
    \/ Clear

SpecRec == Init /\ [][NextRec]_vars

(* ------------- the recorder and the caller's frame objects ------------- *)
\* the connector, the recorder and the viewer as constructed
InitOnline ==
    /\ mc = MocapConnector
    /\ rm = RecordingManager
    /\ mode = OFFLINE
    /\ now = 1
    /\ pc = "idle"
    /\ nev = 0
    /\ ev = NoEvent
    /\ frame_data = NoneValue
    /\ op = "init"
    /\ ret = FALSE
    /\ total_frames = 0
    /\ out = <<>>

InitHeap ==
    /\ InitOnline
    /\ \E kind \in {"tuple", "list"}, pv, rv \in 0..MaxValue :
           heap = CallerHeap(kind, pv, rv)
    /\ handed = NoneValue
    /\ fs = NoFile
    /\ parsed = NoneValue
    /\ matrix = <<>>
    /\ arg = NoneValue
    /\ ax = AxisStudioConnector
    /\ lock = Unlocked
    /\ reader = ReaderIdle
    /\ pending = <<>>
    /\ imported = AllImported

HeapStep(name, h, r, g) ==
    /\ heap' = h
    /\ rm' = r
    /\ handed' = g
    /\ op' = name
    /\ UNCHANGED <<mc, mode, now, pc, nev, ev, frame_data, ret, total_frames, out,
                   fs, parsed, matrix, arg, ax, lock, reader, pending, imported>>

HeapStartRecording ==
    \E fps \in FpsValues :
        HeapStep("start_recording", heap, start_recording(rm, fps), handed)

\* record_frame(joints_data) with the caller's map
HeapRecordFrame ==
    /\ rm.is_recording => Len(heap) + 4 <= MaxHeap
    /\ IF rm.is_recording
       THEN HeapStep("record_frame", joints_copy(heap, CallerMap).h,
                     record_frame(rm, joints_copy(heap, CallerMap).ref), handed)
       ELSE HeapStep("record_frame", heap, record_frame(rm, CallerMap), handed)

HeapGetPlaybackFrame ==
    \E frame_index \in 0..1 :
        HeapStep("get_playback_frame", heap, rm, get_playback_frame(rm, frame_index))

\* the maps the code outside the recorder holds: the one it passed to
\* record_frame and the one get_playback_frame returned
HeldMaps == {CallerMap} \cup ({handed} \ {NoneValue})

\* m[name][key] = (a new tuple)
HolderAssigns ==
    /\ Len(heap) < MaxHeap
    /\ \E m \in HeldMaps, v \in 0..MaxValue :
       \E name \in DOMAIN heap[m].items, key \in {"position", "rotation"} :
          LET data == heap[m].items[name]
              h1 == Append(heap, ValueObject("tuple", v))
          IN HeapStep("assign",
                      [h1 EXCEPT ![data].items =
                          [k \in DOMAIN @ \cup {key} |->
                              IF k = key THEN Len(h1) ELSE @[k]]],
                      rm, handed)

\* m[name][key][i] = x, possible for a list only
HolderMutatesValue ==
    \E m \in HeldMaps, v \in 0..MaxValue :
    \E name \in DOMAIN heap[m].items :
    \E key \in DOMAIN heap[heap[m].items[name]].items :
       LET val == heap[heap[m].items[name]].items[key]
       IN /\ heap[val].kind = "list"
          /\ heap[val].v # v
          /\ HeapStep("mutate_value", [heap EXCEPT ![val].v = v], rm, handed)

\* del m[name][key]
HolderDeletes ==
    \E m \in HeldMaps :
    \E name \in DOMAIN heap[m].items :
    \E key \in DOMAIN heap[heap[m].items[name]].items :
       LET data == heap[m].items[name]
       IN HeapStep("delete",
                   [heap EXCEPT ![data].items = [k \in DOMAIN @ \ {key} |-> @[k]]],
                   rm, handed)

NextHeap ==
    \/ HeapStartRecording
    \/ HeapRecordFrame
    \/ HeapGetPlaybackFrame
    \/ HolderAssigns
    \/ HolderMutatesValue
    \/ HolderDeletes

SpecHeap == InitHeap /\ [][NextHeap]_vars

(* ------------------ recording, export and parsing back ----------------- *)
\* sets of joint names a real-time frame may carry
JointSets ==
    { {},
      {"Hips"},
      {"Spine", "Spine1"},
      {"Hips", "LeftUpLeg", "Tail"},
      {"Hips", "Spine", "Spine1", "Spine2", "Neck", "Neck1", "Head"},
      {"Hips", "Spine", "Spine1", "Spine2", "RightShoulder", "RightArm",
       "RightForeArm", "RightHand", "RightHandThumb1", "RightHandThumb2"},
      {JOINT_ORDER[i] : i \in 1..Len(JOINT_ORDER)} }

\* the joints maps record_frame is called with
ExportFrames ==
    { [n \in S |-> [position |-> <<1, 0, 0>>, rotation |-> <<1, 0, 0, 0>>]] :
        S \in JointSets }
    \cup { [n \in {"Hips"} |-> [position |-> <<0, 1, 0>>, rotation |-> <<0, 0, 0, 1>>]] }

\* a destination that does not exist yet, or one that holds an older file
InitExport ==
    /\ InitOnline
    /\ heap = <<>>
    /\ handed = NoneValue
    /\ fs \in {NoFile, File(<< <<"HIERARCHY">> >>)}
    /\ parsed = NoneValue
    /\ matrix = <<>>
    /\ arg = NoneValue
    /\ ax = AxisStudioConnector
    /\ lock = Unlocked
    /\ reader = ReaderIdle
    /\ pending = <<>>
    /\ imported = AllImported

\* the buffer is filled before the first export
ExStartRecording ==
    /\ op \notin {"export_to_bvh", "parse_bvh"}
    /\ StartRecording

ExRecordFrame ==
    /\ op \notin {"export_to_bvh", "parse_bvh"}
    /\ rm.is_recording => Len(rm.recorded_frames) < MaxExportFrames
    /\ \E joints_data \in ExportFrames :
         RmCall("record_frame", record_frame(rm, joints_data), total_frames)

\* the destinations: one that takes every byte, one that takes 5 (the text is
\* cut in its first word), one that takes 23 (it is cut in the spaces before
\* the first OFFSET), and one that takes 217, which is all of the text of one
\* frame of the hips but its last "\n"
WriteRooms == {Unlimited, 5, 23, 217}

ExportToBvh ==
    \E writable \in BOOLEAN, include_fingers \in BOOLEAN :
    \E room \in IF writable THEN WriteRooms ELSE {Unlimited} :
    \E o \in {export_to_bvh(rm, fs, writable, room, include_fingers)} :
       /\ rm' = o.r
       /\ fs' = o.fs
       /\ ret' = o.ret
       /\ arg' = [writable |-> writable, room |-> room,
                  include_fingers |-> include_fingers, raised |-> o.raised]
       /\ op' = "export_to_bvh"
       /\ UNCHANGED <<mc, mode, now, pc, nev, ev, frame_data, total_frames, out,
                      heap, handed, parsed, matrix, ax, lock, reader, pending, imported>>

\* parse_bvh(file_path); every Joint is created with the identity as its matrix
ParseBvh ==
    /\ parsed' = parse_bvh(fs)
    /\ matrix' = [j \in 1..Len(parse_bvh(fs).arena) |-> Identity4]
    /\ op' = "parse_bvh"
    /\ UNCHANGED <<mc, rm, mode, now, pc, nev, ev, frame_data, ret, total_frames, out,
                   heap, handed, fs, arg, ax, lock, reader, pending, imported>>

NextExport ==
    \/ ExStartRecording
    \/ ExRecordFrame
    \/ ExportToBvh
    \/ ParseBvh

SpecExport == InitExport /\ [][NextExport]_vars

\* the recorder and its export alone; the recording is started as the viewer
\* starts it, with start_recording(fps=60.0)
WriteStartRecording ==
    /\ op \notin {"export_to_bvh", "parse_bvh"}
    /\ RmCall("start_recording", start_recording(rm, 60), total_frames)

NextWrite ==
    \/ WriteStartRecording
    \/ ExRecordFrame
    \/ ExportToBvh

SpecWrite == InitExport /\ [][NextWrite]_vars

(* ------------------------- the offline path ---------------------------- *)
\* BVH files to read: a skeleton of one to four joints, with or without End
\* Sites, with or without position channels on the root, in two rotation
\* orders, followed by up to MaxMotionLines lines of motion data
RootChannels ==
    { <<"Xposition", "Yposition", "Zposition", "Zrotation", "Xrotation", "Yrotation">>,
      <<"Zrotation", "Xrotation", "Yrotation">> }
JointChannels ==
    { <<"Zrotation", "Xrotation", "Yrotation">>,
      <<"Xrotation", "Yrotation", "Zrotation">> }

EndSiteLines ==
    << <<"End", "Site">>, <<"{">>, <<"OFFSET", "0.00", "5.00", "0.00">>, <<"}">> >>

JointBlock(kind, name, offset, channels, inner) ==
    << <<kind, name>>, <<"{">>, <<"OFFSET">> \o offset,
       <<"CHANNELS", str(Len(channels))>> \o channels >>
    \o inner \o << <<"}">> >>

Hierarchies ==
    UNION { { JointBlock("ROOT", "Hips", <<"0.00", "0.00", "0.00">>, rc, EndSiteLines),
              JointBlock("ROOT", "Hips", <<"0.00", "0.00", "0.00">>, rc,
                  JointBlock("JOINT", "Spine", <<"0.00", "10.00", "0.00">>, jc, EndSiteLines)),
              JointBlock("ROOT", "Hips", <<"0.00", "0.00", "0.00">>, rc,
                  JointBlock("JOINT", "Spine", <<"0.00", "10.00", "0.00">>, jc,
                      JointBlock("JOINT", "Head", <<"0.00", "8.00", "0.00">>, jc,
                                 EndSiteLines))
                  \o JointBlock("JOINT", "LeftUpLeg", <<"8.50", "0.00", "0.00">>, jc,
                                EndSiteLines)),
              JointBlock("ROOT", "Hips", <<"0.00", "0.00", "0.00">>, rc,
                  JointBlock("JOINT", "Spine", <<"0.00", "10.00", "0.00">>, jc, <<>>)
                  \o JointBlock("JOINT", "LeftUpLeg", <<"8.50", "0.00", "0.00">>, jc, <<>>)),
              JointBlock("ROOT", "Hips", <<"0.00", "0.00", "0.00">>, rc,
                  JointBlock("JOINT", "Spine", <<"0.00", "10.00", "0.00">>, jc,
                      JointBlock("JOINT", "Spine2", <<"0.00", "8.00", "0.00">>, jc,
                          JointBlock("JOINT", "Head", <<"0.00", "0.00", "0.00">>, jc,
                                     EndSiteLines))))
            } : rc \in RootChannels, jc \in JointChannels }

\* the number of channels a hierarchy declares
RECURSIVE DeclaredChannels(_)
DeclaredChannels(lines) ==
    IF lines = <<>> THEN 0
    ELSE IF Len(lines) = 1
    THEN (IF Head(lines)[1] = "CHANNELS" THEN Len(Head(lines)) - 2 ELSE 0)
    ELSE DeclaredChannels(SubSeq(lines, 1, Len(lines) \div 2))
         + DeclaredChannels(SubSeq(lines, Len(lines) \div 2 + 1, Len(lines)))

\* the values of the motion lines: every line repeats one value
MotionValues ==
    UNION { [1..n -> {"0.000000", "90.000000"}] : n \in 0..MaxMotionLines }

BvhText(hierarchy, values, frame_time) ==
    << <<"HIERARCHY">> >> \o hierarchy
    \o << <<"MOTION">>, <<"Frames:", str(Len(values))>>,
          <<"Frame", "Time:", frame_time>> >>
    \o [i \in 1..Len(values) |-> [c \in 1..DeclaredChannels(hierarchy) |-> values[i]]]

WellFormedTexts ==
    { BvhText(h, v, t) : h \in Hierarchies, v \in MotionValues,
                         t \in {"0.016667", "0.033333"} }

\* texts with inconsistent braces: a closing brace too many, and OFFSET,
\* CHANNELS or End Site outside any joint block
MalformedTexts ==
    LET block == JointBlock("ROOT", "Hips", <<"0.00", "0.00", "0.00">>,
                            <<"Zrotation", "Xrotation", "Yrotation">>, <<>>)
        spine == JointBlock("JOINT", "Spine", <<"0.00", "10.00", "0.00">>,
                            <<"Zrotation", "Xrotation", "Yrotation">>, <<>>)
        motion == << <<"MOTION">>, <<"Frames:", "0">>, <<"Frame", "Time:", "0.016667">> >>
    IN { << <<"HIERARCHY">> >> \o block \o << <<"}">> >> \o spine \o motion,
         << <<"HIERARCHY">>, <<"OFFSET", "0.00", "0.00", "0.00">> >> \o block \o motion,
         << <<"HIERARCHY">> >> \o block
             \o << <<"CHANNELS", "3", "Zrotation", "Xrotation", "Yrotation">> >> \o motion,
         << <<"HIERARCHY">> >> \o block \o EndSiteLines \o motion }

InitOffline ==
    /\ InitOnline
    /\ heap = <<>>
    /\ handed = NoneValue
    /\ fs \in {File(t) : t \in WellFormedTexts \cup MalformedTexts} \cup {NoFile}
    /\ parsed = NoneValue
    /\ matrix = <<>>
    /\ arg = NoneValue
    /\ ax = AxisStudioConnector
    /\ lock = Unlocked
    /\ reader = ReaderIdle
    /\ pending = <<>>
    /\ imported = AllImported

(* ------------------------- offline evaluation -------------------------- *)
\* A 4x4 matrix is a sequence of four rows.  The rotation part holds whole
\* numbers, the translation column holds millionths, as parsed offsets do.
MatEntry(A, B, i, j) ==
    A[i][1] * B[1][j] + A[i][2] * B[2][j] + A[i][3] * B[3][j] + A[i][4] * B[4][j]
MatRow(A, B, i) ==
    <<MatEntry(A, B, i, 1), MatEntry(A, B, i, 2), MatEntry(A, B, i, 3), MatEntry(A, B, i, 4)>>
MatMul(A, B) == <<MatRow(A, B, 1), MatRow(A, B, 2), MatRow(A, B, 3), MatRow(A, B, 4)>>

Translation(t) ==
    <<<<1, 0, 0, t[1]>>, <<0, 1, 0, t[2]>>, <<0, 0, 1, t[3]>>, <<0, 0, 0, 1>>>>

\* np.cos and np.sin of np.radians(angle), for the multiples of 90 degrees
QuarterTurns(angle) == (angle \div 90000000) % 4
cos_degrees(angle) == <<1, 0, -1, 0>>[QuarterTurns(angle) + 1]
sin_degrees(angle) == <<0, 1, 0, -1>>[QuarterTurns(angle) + 1]

Rotation(axis, angle) ==
    LET c == cos_degrees(angle)
        s == sin_degrees(angle)
    IN IF axis = "X" THEN <<<<1, 0, 0, 0>>, <<0, c, -s, 0>>, <<0, s, c, 0>>, <<0, 0, 0, 1>>>>
       ELSE IF axis = "Y" THEN <<<<c, 0, s, 0>>, <<0, 1, 0, 0>>, <<-s, 0, c, 0>>, <<0, 0, 0, 1>>>>
       ELSE <<<<c, -s, 0, 0>>, <<s, c, 0, 0>>, <<0, 0, 1, 0>>, <<0, 0, 0, 1>>>>

RotationAxis ==
    [c \in {"Xrotation", "Yrotation", "Zrotation"} |->
        IF c = "Xrotation" THEN "X" ELSE IF c = "Yrotation" THEN "Y" ELSE "Z"]

\* the loop over joint.channels: one rotation per rotation channel, in order
RECURSIVE rotate_channels(_, _, _, _)
rotate_channels(M, joint, frame, i) ==
    IF i > Len(joint.channels) THEN M
    ELSE LET channel == joint.channels[i]
             \* the product is computed before the next channel is looked at
             rotated == IF channel \in DOMAIN RotationAxis
                        THEN MatMul(M, Rotation(RotationAxis[channel],
                                                frame[joint.channel_indices[channel] + 1]))
                        ELSE M
         IN IF Len(rotated) = Len(M)
            THEN rotate_channels(rotated, joint, frame, i + 1)
            ELSE rotated

\* a joint matrix that starts from the matrix the joint held before the call
joint_matrix_accumulating(sk, m, j, frame) ==
    LET joint == sk.arena[j]
        pos(c) == IF \E i \in 1..Len(joint.channels) : joint.channels[i] = c
                  THEN frame[joint.channel_indices[c] + 1] ELSE 0
    IN rotate_channels(
           IF joint.parent = NoneValue
           THEN MatMul(m[j], Translation(<<pos("Xposition"), pos("Yposition"),
                                           pos("Zposition")>>))
           ELSE MatMul(m[sk.joints[sk.arena[joint.parent].name]],
                       Translation(joint.offset)),
           joint, frame, 1)

\* the matrix update_joint_matrices assigns to one joint, given the matrices
\* m that the joints hold at that moment (all_joints[...].matrix)
joint_matrix(sk, m, j, frame) ==
    LET joint == sk.arena[j]
        pos(c) == IF \E i \in 1..Len(joint.channels) : joint.channels[i] = c
                  THEN frame[joint.channel_indices[c] + 1] ELSE 0
    IN rotate_channels(
           IF joint.parent = NoneValue
           THEN Translation(<<pos("Xposition"), pos("Yposition"), pos("Zposition")>>)
           ELSE MatMul(m[sk.joints[sk.arena[joint.parent].name]],
                       Translation(joint.offset)),
           joint, frame, 1)

\* update_joint_matrices(joint, frame_data, all_joints): the joint, then its
\* children in order, each child with its own subtree
RECURSIVE update_joint_matrices(_, _, _, _), update_children(_, _, _, _, _)
\* (the joint's matrix is assigned before its children are visited, and a
\* child's subtree is finished before the next child is visited)
update_joint_matrices(sk, m, j, frame) ==
    LET assigned == [m EXCEPT ![j] = joint_matrix(sk, m, j, frame)]
    IN  IF Len(assigned) = Len(m)
        THEN update_children(sk, assigned, sk.arena[j].children, frame, 1)
        ELSE assigned
update_children(sk, m, children, frame, i) ==
    IF i > Len(children) THEN m
    ELSE LET visited == update_joint_matrices(sk, m, children[i], frame)
         IN  IF Len(visited) = Len(m)
             THEN update_children(sk, visited, children, frame, i + 1)
             ELSE visited

\* the subscripts frame_data[joint.channel_indices[...]] of update_joint_matrices:
\* the position channels of the root and the rotation channels of every joint
\* under it.  The call raises IndexError unless the frame has a value at each.
RECURSIVE under_root(_, _)
under_root(sk, j) ==
    \/ j = sk.root_joint
    \/ /\ sk.arena[j].parent # NoneValue
       /\ under_root(sk, sk.arena[j].parent)
frame_indexable(sk, frame) ==
    \A j \in 1..Len(sk.arena) :
        under_root(sk, j) =>
            \A i \in 1..Len(sk.arena[j].channels) :
                LET channel == sk.arena[j].channels[i]
                IN  \/ channel \in DOMAIN RotationAxis
                    \/ /\ sk.arena[j].parent = NoneValue
                       /\ channel \in {"Xposition", "Yposition", "Zposition"}
                    => sk.arena[j].channel_indices[channel] + 1 <= Len(frame)

(* --------------------- anatomical angles, kinematics ------------------- *)
\* get_world_position(joint): joint.matrix[:3, 3]
get_world_position(M) == <<M[1][4], M[2][4], M[3][4]>>

CUSTOM_JOINT_ORDER ==
    << "Hips",
       "RightUpLeg", "RightLeg", "RightFoot",
       "LeftUpLeg", "LeftLeg", "LeftFoot",
       "Spine", "Spine1", "Spine2",
       "Neck", "Neck1", "Head",
       "RightShoulder", "RightArm", "RightForeArm", "RightHand",
       "RightHandThumb1", "RightHandThumb2", "RightHandThumb3",
       "RightinHandindex", "RightHandindex1", "RightHandindex2", "RightHandindex3",
       "RightlnHandMiddle", "RightHandMiddle1", "RightHandMiddle2", "RightHandMiddle3",
       "RightinHandRing", "RightHandRing1", "RightHandRing2", "RightHandRing3",
       "RightinHandPinky", "RightHandPinky1", "RightHandPinky2", "RightHandPinky3",
       "LeftShoulder", "LeftArm", "LeftForeArm", "LeftHand",
       "LeftHandThumb1", "LeftHandThumb2", "LeftHandThumb3",
       "LeftinHandindex", "LeftHandindex1", "LeftHandindex2", "LeftHandindex3",
       "LeftinHandMiddle", "LeftHandMiddle1", "LeftHandMiddle2", "LeftHandMiddle3",
       "LeftinHandRing", "LeftHandRing1", "LeftHandRing2", "LeftHandRing3",
       "LeftinHandPinky", "LeftHandPinky2", "LeftHandPinky2", "LeftHandPinky3",
       "Spine3" >>

\* None as the value of an angle (angles themselves are never negative)
NoAngle == -1

\* np.linalg.norm(v) > 1e-6 for a vector of millionths: longer than one
\* millionth, decided on the components cut to -2..2
Cut2(x) == IF x > 2 THEN 2 ELSE IF x < -2 THEN -2 ELSE x
longer_than_1e6th(v) == Cut2(v[1]) * Cut2(v[1]) + Cut2(v[2]) * Cut2(v[2])
                        + Cut2(v[3]) * Cut2(v[3]) > 1

\* the direction of a vector in lowest terms (the angle depends on nothing else)
RECURSIVE Gcd(_, _)
Gcd(a, b) == IF b = 0 THEN a ELSE Gcd(b, a % b)
Abs(x) == IF x < 0 THEN -x ELSE x
Direction(v) ==
    LET g == Gcd(Gcd(Abs(v[1]), Abs(v[2])), Abs(v[3]))
    IN <<v[1] \div g, v[2] \div g, v[3] \div g>>

\* round(np.degrees(np.arccos(np.clip(cos_theta, -1.0, 1.0))), 2), in millionths
\* of a degree, for the cosines whose square is 0, 1/4, 1/2, 3/4 or 1; the
\* cosine is dot / sqrt(n1 * n2) with n1, n2 the squared lengths
ArccosTable ==
    << <<0, 1, 90000000, 90000000>>, <<1, 1, 0, 180000000>>,
       <<1, 2, 45000000, 135000000>>, <<1, 4, 60000000, 120000000>>,
       <<3, 4, 30000000, 150000000>> >>
arccos_degrees(dot, n1, n2) ==
    LET row == ArccosTable[CHOOSE i \in 1..Len(ArccosTable) :
                              ArccosTable[i][2] * dot * dot = ArccosTable[i][1] * n1 * n2]
    IN IF dot >= 0 THEN row[3] ELSE row[4]

\* get_vector_angle(parent_joint_name, current_joint_name, child_joint_name)
get_vector_angle(joints, m, parent_joint_name, current_joint_name, child_joint_name) ==
    IF /\ parent_joint_name \in DOMAIN joints
       /\ current_joint_name \in DOMAIN joints
       /\ child_joint_name \in DOMAIN joints
    THEN LET p_parent == get_world_position(m[joints[parent_joint_name]])
             p_current == get_world_position(m[joints[current_joint_name]])
             p_child == get_world_position(m[joints[child_joint_name]])
             vec_parent == <<p_parent[1] - p_current[1], p_parent[2] - p_current[2],
                             p_parent[3] - p_current[3]>>
             vec_child == <<p_child[1] - p_current[1], p_child[2] - p_current[2],
                            p_child[3] - p_current[3]>>
             a == Direction(vec_parent)
             b == Direction(vec_child)
         IN IF longer_than_1e6th(vec_parent) /\ longer_than_1e6th(vec_child)
            THEN arccos_degrees(a[1] * b[1] + a[2] * b[2] + a[3] * b[3],
                                a[1] * a[1] + a[2] * a[2] + a[3] * a[3],
                                b[1] * b[1] + b[2] * b[2] + b[3] * b[3])
            ELSE NoAngle
    ELSE NoAngle

\* angles[key] = value
SetItem(d, key, value) == (key :> value) @@ d

\* the sweep over CUSTOM_JOINT_ORDER and, for each joint, over its children
RECURSIVE sweep_children(_, _, _, _, _), adjacency_sweep(_, _, _, _, _)
sweep_children(sk, m, angles, j, k) ==
    LET current_joint == sk.arena[j]
        parent_joint_name == sk.arena[current_joint.parent].name
        child_joint_name == sk.arena[current_joint.children[k]].name
        angle_value == get_vector_angle(sk.joints, m, parent_joint_name,
                                        current_joint.name, child_joint_name)
    IN IF k > Len(current_joint.children) THEN angles
       ELSE sweep_children(
                sk, m,
                IF child_joint_name \in DOMAIN sk.joints /\ angle_value # NoAngle
                THEN SetItem(angles, parent_joint_name \o "_" \o current_joint.name,
                             angle_value)
                ELSE angles,
                j, k + 1)
adjacency_sweep(sk, m, angles, names, i) ==
    IF i > Len(names) THEN angles
    ELSE adjacency_sweep(sk, m, sweep_children(sk, m, angles, sk.joints[names[i]], 1),
                         names, i + 1)

\* the names of CUSTOM_JOINT_ORDER that the sweep does not skip: joints of the
\* skeleton that have a parent
swept_names(sk) ==
    SelectSeq(CUSTOM_JOINT_ORDER,
              LAMBDA joint_name : /\ joint_name \in DOMAIN sk.joints
                                  /\ sk.arena[sk.joints[joint_name]].parent # NoneValue)

\* calculate_anatomical_angles(joints), the joints holding the matrices m
calculate_anatomical_angles(sk, m) ==
    IF m = <<>> THEN <<>>   \* no joints: every lookup fails, no angle is kept
    ELSE
    LET swept == adjacency_sweep(sk, m, <<>>, swept_names(sk), 1)
        back == SetItem(swept, "Hips_Spine",
                        get_vector_angle(sk.joints, m, "Hips", "Spine", "Spine2"))
        head == SetItem(back, "Spine2_Neck",
                        get_vector_angle(sk.joints, m, "Spine2", "Neck", "Head"))
    IN [key \in {k \in DOMAIN head : head[k] # NoAngle} |-> head[key]]

\* A velocity or an acceleration component is the exact quotient
\* num / frame_time^per of the call's frame_time (num in millionths, frame_time
\* in millionths of a second); zero is [num |-> 0, per |-> 0], as in np.zeros(3).
Quotient(num, per) == [num |-> num, per |-> IF num = 0 THEN 0 ELSE per]
zeros3 == <<Quotient(0, 0), Quotient(0, 0), Quotient(0, 0)>>
\* (a - b) / frame_time for vectors of quotients of one power of frame_time
quotient_difference(a, b) ==
    Quotient(a.num - b.num, (IF a.per > b.per THEN a.per ELSE b.per) + 1)
difference_over_frame_time(a, b) ==
    <<quotient_difference(a[1], b[1]), quotient_difference(a[2], b[2]),
      quotient_difference(a[3], b[3])>>
as_quotients(v) == <<Quotient(v[1], 0), Quotient(v[2], 0), Quotient(v[3], 0)>>

\* the first loop of calculate_kinematics: every frame is evaluated on a fresh
\* copy of the skeleton, from its first joint
frame_matrices(sk, frame) ==
    update_joint_matrices(sk, [j \in 1..Len(sk.arena) |-> Identity4], 1, frame)
positions_of(sk, all_frames_data) ==
    [i \in 1..Len(all_frames_data) |->
        [name \in DOMAIN sk.joints |->
            get_world_position(frame_matrices(sk, all_frames_data[i])[sk.joints[name]])]]

\* velocities that are zero for the first two frames
velocities_from_third_frame(sk, positions) ==
    [i \in 1..(IF Len(positions) = 0 THEN 1 ELSE Len(positions)) |->
        [name \in DOMAIN sk.joints |->
            IF i <= 2 THEN zeros3
            ELSE difference_over_frame_time(as_quotients(positions[i][name]),
                                            as_quotients(positions[i - 1][name]))]]

\* velocities_per_frame: zeros, then one entry for each i in range(1, num_frames)
velocities_of(sk, positions) ==
    [i \in 1..(IF Len(positions) = 0 THEN 1 ELSE Len(positions)) |->
        [name \in DOMAIN sk.joints |->
            IF i = 1 THEN zeros3
            ELSE difference_over_frame_time(as_quotients(positions[i][name]),
                                            as_quotients(positions[i - 1][name]))]]

\* accelerations_per_frame
accelerations_of(sk, velocities) ==
    [i \in 1..Len(velocities) |->
        [name \in DOMAIN sk.joints |->
            IF i = 1 THEN zeros3
            ELSE difference_over_frame_time(velocities[i][name], velocities[i - 1][name])]]

\* calculate_kinematics(joints, all_frames_data, frame_time)
calculate_kinematics(sk, all_frames_data, frame_time) ==
    LET positions == positions_of(sk, all_frames_data)
        velocities == velocities_of(sk, positions)
    IN [ positions |-> positions,
         velocities |-> velocities,
         accelerations |-> accelerations_of(sk, velocities),
         anatomical_angles |->
             [i \in 1..Len(all_frames_data) |->
                 calculate_anatomical_angles(sk, frame_matrices(sk, all_frames_data[i]))],
         frame_time |-> frame_time ]

\* the viewer evaluates a frame of the motion data of the file it has loaded
UpdateJointMatrices ==
    /\ op \in {"calculate_kinematics", "update_joint_matrices"}
    /\ ~parsed.raised
    /\ parsed.root_joint # NoneValue
    /\ \E k \in 1..Len(parsed.motion_data) :
          /\ frame_indexable(parsed, parsed.motion_data[k])
          /\ matrix' = update_joint_matrices(parsed, matrix, parsed.root_joint,
                                             parsed.motion_data[k])
          /\ arg' = [frame_data |-> parsed.motion_data[k]]
    /\ op' = "update_joint_matrices"
    /\ UNCHANGED <<mc, rm, mode, now, pc, nev, ev, frame_data, ret, total_frames, out,
                   heap, handed, fs, parsed, ax, lock, reader, pending, imported>>

\* loading a file: the kinematics are computed as soon as the file is parsed
CalculateKinematics ==
    /\ op = "parse_bvh"
    /\ ~parsed.raised
    /\ parsed.root_joint # NoneValue
    /\ parsed.frame_time > 0
    /\ \A k \in 1..Len(parsed.motion_data) :
          frame_indexable(parsed, parsed.motion_data[k])
    /\ ret' = calculate_kinematics(parsed, parsed.motion_data, parsed.frame_time)
    /\ op' = "calculate_kinematics"
    /\ UNCHANGED <<mc, rm, mode, now, pc, nev, ev, frame_data, total_frames, out,
                   heap, handed, fs, parsed, matrix, arg, ax, lock, reader, pending,
                   imported>>

NextOffline == ParseBvh \/ UpdateJointMatrices \/ CalculateKinematics
SpecOffline == InitOffline /\ [][NextOffline]_vars

(* ======================= properties of the connector =================== *)
\* poll_and_update computes time.time() - stabilize_start_time only with the
\* timer set (no TypeError aborts a poll)
StabilizeTimerSet ==
    mc.capture_phase = STABILIZING => mc.stabilize_start_time # NoneValue

Requests == {"start_capture", "stop_capture", "start_calibration"}

\* the step handles one event of a poll; ev' is that event
IsEventStep == pc = "events" /\ pc' = "events" /\ nev' = nev + 1

\* the step is the end of a poll (time-out check, return)
IsPollEnd == pc \in {"events", "after"} /\ pc' \in {"idle", "polled"}

\* C1: whenever current_command is non-empty, every start_capture, stop_capture
\* and start_calibration request returns False, queues nothing to the device and
\* leaves the connector unchanged.
C1_SecondCommandRejected ==
    [][ (op' \in Requests /\ mc.current_command # NoCommand)
        => (ret' = FALSE /\ out' = <<>> /\ mc' = mc) ]_vars

\* C2: a calibrate request made while the phase is not Ready, or while not
\* capturing, or while a calibration is pending, returns False, queues nothing
\* and leaves every field of the connector unchanged.
C2_CalibrateRejectedUnchanged ==
    [][ (/\ op' = "start_calibration"
         /\ \/ mc.capture_phase # READY
            \/ ~mc.is_capturing
            \/ mc.calibration_command_sent)
        => (ret' = FALSE /\ out' = <<>> /\ mc' = mc) ]_vars

C2_Witness ==
    /\ op = "start_calibration"
    /\ ret = FALSE
    /\ mc.is_capturing
    /\ mc.capture_phase = STABILIZING
    /\ mc.current_command = NoCommand

\* C3: a result event with a failure code, handled while a calibration is
\* pending (the pending flag is set), within that event sets CalibrationState
\* to Failed, clears the sentinel, the pending flag and the calibration timer,
\* and leaves CapturePhase as it was.
C3_FailureResultFailsCalibration ==
    [][ (/\ IsEventStep
         /\ ev'.type = "Result" /\ ev'.arg # 0
         /\ mc.calibration_command_sent)
        => (/\ mc'.calibration_state = FAILED
            /\ mc'.current_command = NoCommand
            /\ ~mc'.calibration_command_sent
            /\ mc'.calibration_start_time = NoneValue
            /\ mc'.capture_phase = mc.capture_phase) ]_vars

\* C4: a result event with the success code, handled while a calibration is
\* pending (the pending flag is set), sets CalibrationState to Completed,
\* CapturePhase to Calibrated, the connection state to Capturing and clears the
\* sentinel; is_ready_for_record() holds right after the event.
C4_SuccessResultCompletesCalibration ==
    [][ (/\ IsEventStep
         /\ ev'.type = "Result" /\ ev'.arg = 0
         /\ mc.calibration_command_sent)
        => (/\ mc'.calibration_state = COMPLETED
            /\ mc'.capture_phase = CALIBRATED
            /\ mc'.connection_state = CAPTURING
            /\ mc'.current_command = NoCommand
            /\ is_ready_for_record(mc')) ]_vars

\* C5: at the end of a poll of a connected connector, a calibration pending for
\* at least CALIBRATION_TIMEOUT is forced to Failed, the sentinel, the pending
\* flag and the timer are cleared, and CapturePhase becomes Ready unless it is
\* Calibrated; a calibration already ended by its result (Completed or Failed)
\* is left as it is by the time-out check.
C5_CalibrationTimeout ==
    [][ /\ (/\ IsPollEnd
            /\ mc.calibration_command_sent
            /\ now - mc.calibration_start_time >= CALIBRATION_TIMEOUT)
           => (/\ mc'.calibration_state = FAILED
               /\ mc'.current_command = NoCommand
               /\ ~mc'.calibration_command_sent
               /\ mc'.calibration_start_time = NoneValue
               /\ mc'.capture_phase = IF mc.capture_phase = CALIBRATED
                                      THEN CALIBRATED ELSE READY)
        /\ (/\ IsPollEnd
            /\ mc.calibration_state \in {COMPLETED, FAILED})
           => (/\ mc'.calibration_state = mc.calibration_state
               /\ mc'.capture_phase = mc.capture_phase
               /\ mc'.current_command = mc.current_command
               /\ mc'.connection_state = mc.connection_state) ]_vars

C5_Witness ==
    /\ pc = "idle"
    /\ op = "poll_and_update"
    /\ mc.is_connected
    /\ mc.is_capturing
    /\ mc.calibration_state = FAILED
    /\ mc.connection_state = CAPTURING
    /\ mc.capture_phase = READY
    /\ ~mc.calibration_command_sent
    /\ now - mc.stabilize_start_time >= STABILIZE_DURATION + CALIBRATION_TIMEOUT

\* C6: CapturePhase goes from Stabilizing to Ready only when at least
\* STABILIZE_DURATION has elapsed since the stabilization timer was started.
C6_ReadyOnlyAfterStabilization ==
    [][ (mc.capture_phase = STABILIZING /\ mc'.capture_phase = READY)
        => now - mc'.stabilize_start_time >= STABILIZE_DURATION ]_vars

\* C7: start_capture itself does not start capturing; capturing starts only in
\* the handling of a frame.  A frame handled while not capturing and with the
\* sentinel empty or holding start-capture clears the sentinel, sets
\* is_capturing, ConnectionState Capturing, CapturePhase Stabilizing and starts
\* the stabilization timer at the current time; a frame handled while
\* stop-capture or calibrate is outstanding does not start capturing.
C7_CaptureStartsOnFirstFrame ==
    [][ /\ (op' = "start_capture") => (mc'.is_capturing = mc.is_capturing)
        /\ (~mc.is_capturing /\ mc'.is_capturing)
           => (IsEventStep /\ ev'.type = "AvatarUpdated")
        /\ (/\ IsEventStep /\ ev'.type = "AvatarUpdated"
            /\ ~mc.is_capturing
            /\ mc.current_command \in {NoCommand, CommandStartCapture})
           => (/\ mc'.current_command = NoCommand
               /\ mc'.is_capturing
               /\ mc'.connection_state = CAPTURING
               /\ mc'.capture_phase = STABILIZING
               /\ mc'.stabilize_start_time = now)
        /\ (/\ IsEventStep /\ ev'.type = "AvatarUpdated"
            /\ ~mc.is_capturing
            /\ mc.current_command \in {CommandStopCapture, CommandCalibrateMotion})
           => (~mc'.is_capturing /\ mc'.current_command = mc.current_command) ]_vars

C7_Witness ==
    /\ pc = "events"
    /\ ev.type = "AvatarUpdated"
    /\ mc.is_capturing
    /\ mc.connection_state = CAPTURING
    /\ mc.capture_phase = STABILIZING
    /\ mc.stabilize_start_time = now
    /\ mc.current_command = NoCommand

\* C8: when a pending calibration ends in Failed (failure result or time-out)
\* and the connector is still capturing, CapturePhase is Ready, the sentinel is
\* empty, nothing is pending, and a calibrate request made then is accepted.
C8_FailedCalibrationCanBeRetried ==
    [][ (/\ mc.calibration_command_sent
         /\ ~mc'.calibration_command_sent
         /\ mc'.calibration_state = FAILED
         /\ mc'.is_capturing)
        => (/\ mc'.capture_phase = READY
            /\ mc'.current_command = NoCommand
            /\ can_start_calibration(mc')
            /\ start_calibration(mc', now').ret) ]_vars

\* a calibration has ended in Failed while capture goes on, and a calibrate
\* request made now is accepted
C8_Witness ==
    /\ mc.calibration_state = FAILED
    /\ mc.is_capturing
    /\ ~mc.calibration_command_sent
    /\ mc.calibration_start_time = NoneValue
    /\ mc.capture_phase = READY
    /\ mc.current_command = NoCommand
    /\ start_calibration(mc, now).ret

(* ================== properties of the viewer and recorder ============== *)
\* C9: in Mocap mode a frame is appended to the recording buffer only while
\* is_ready_for_record() holds (capturing, CapturePhase Calibrated,
\* CalibrationState Completed), and a recording is started only then.
C9_RecordingGated ==
    [][ /\ (mode = MOCAP /\ Len(rm'.recorded_frames) > Len(rm.recorded_frames))
           => is_ready_for_record(mc')
        /\ (mode = MOCAP /\ ~rm.is_recording /\ rm'.is_recording)
           => is_ready_for_record(mc) ]_vars

\* C10: record_frame while not recording (before the first start_recording,
\* after stop_recording, after clear) changes nothing; stop_recording returns
\* the number of frames buffered since the last start_recording and leaves them
\* buffered; while not recording only start_recording and clear change the buffer.
C10_RecordOnlyWhileRecording ==
    [][ /\ (op' = "record_frame" /\ ~rm.is_recording) => (rm' = rm)
        /\ (op' = "stop_recording")
           => (/\ total_frames' = rm.frame_counter
               /\ total_frames' = Len(rm'.recorded_frames)
               /\ rm'.recorded_frames = rm.recorded_frames
               /\ ~rm'.is_recording)
        /\ (~rm.is_recording /\ rm'.recorded_frames # rm.recorded_frames)
           => (op' \in {"start_recording", "clear"}) ]_vars

C10_Witness ==
    /\ op = "record_frame"
    /\ ~rm.is_recording
    /\ total_frames = 2
    /\ Len(rm.recorded_frames) = 2
    /\ rm.frame_counter = 2

\* C11: start_recording leaves the buffer empty, and in every state reached by
\* start_recording, record_frame, stop_recording and clear the i-th buffered
\* frame (counting from 0) has frame_index = i.
C11_SequentialFrameIndices ==
    [][ /\ (op' = "start_recording") => (rm'.recorded_frames = <<>>)
        /\ \A i \in 1..Len(rm'.recorded_frames) :
               rm'.recorded_frames[i].frame_index = i - 1 ]_vars

\* a second recording: two frames were buffered and returned by stop_recording,
\* start_recording discarded them, and the buffer now holds the new frames
C11_Witness ==
    /\ op = "record_frame"
    /\ total_frames = 2
    /\ rm.is_recording
    /\ Len(rm.recorded_frames) = 3
    /\ rm.recorded_frames[3].frame_index = 2

\* C12: a buffered frame never aliases data held outside the recorder: while a
\* frame stays in the buffer, no assignment to, deletion from or in-place
\* mutation of the map passed to record_frame, of its per-joint values, or of
\* the map get_playback_frame handed out changes what export reads of the frame.
C12_BufferNeverAliases ==
    [][ \A i \in 1..Len(rm.recorded_frames) :
          (/\ i <= Len(rm'.recorded_frames)
           /\ rm'.recorded_frames[i] = rm.recorded_frames[i])
          => FrameContent(heap', rm'.recorded_frames[i].joints)
             = FrameContent(heap, rm.recorded_frames[i].joints) ]_vars

\* C13: export_to_bvh with an empty buffer or an unwritable destination returns
\* False, raises nothing and leaves the buffer as it was; with an empty buffer
\* the destination file is neither created nor changed.
C13_ExportFailsCleanly ==
    [][ (op' = "export_to_bvh"
         /\ (rm.recorded_frames = <<>> \/ ~arg'.writable \/ arg'.room # Unlimited))
        => (/\ ret' = FALSE
            /\ ~arg'.raised
            /\ rm' = rm
            /\ (rm.recorded_frames = <<>> => fs' = fs)) ]_vars

\* a failed export of a non-empty buffer to an unwritable destination
C13_Witness ==
    /\ op = "export_to_bvh"
    /\ ret = FALSE
    /\ ~arg.writable
    /\ Len(rm.recorded_frames) = 2

\* the names of the parsed joints' parents (NoParent for a joint without parent)
ParentName(p, n) ==
    LET j == p.arena[p.joints[n]]
    IN IF j.parent = NoneValue THEN NoParent ELSE p.arena[j.parent].name

\* the file holds what export_to_bvh writes of the buffer
IsExportOf(file, r, include_fingers) ==
    /\ r.recorded_frames # <<>>
    /\ file = File(split_lines(bvh_text(r, joints_to_export_of(r, include_fingers))))

\* C14: round trip: parsing the file exported from N buffered frames yields N
\* motion frames and a joint map whose names are those of the joints exported
\* and whose parent links are those of the export tables (so Head is present
\* whenever it was exported).
C14_ExportParseRoundTrip ==
    [][ \A f \in BOOLEAN :
          (op' = "parse_bvh" /\ IsExportOf(fs, rm, f))
          => LET table == joints_to_export_of(rm, f)
             IN /\ ~parsed'.raised
                /\ Len(parsed'.motion_data) = Len(rm.recorded_frames)
                /\ parsed'.frames = Len(rm.recorded_frames)
                /\ DOMAIN parsed'.joints = {table[i] : i \in 1..Len(table)}
                /\ \A n \in DOMAIN parsed'.joints :
                       ParentName(parsed', n) = hierarchy_get(n) ]_vars

\* the joints of the hierarchy written to a file, in the order written
HierarchyNames(lines) ==
    LET decl == SelectSeq(lines, LAMBDA l : l # <<>> /\ l[1] \in {"ROOT", "JOINT"})
    IN [i \in 1..Len(decl) |-> decl[i][2]]

\* C15: the joints exported are the export-order table restricted to the joints
\* of the first buffered frame, in table order: a joint absent from the first
\* frame, the root included, is not exported.
C15_ExportsJointsOfFirstFrame ==
    [][ (op' = "export_to_bvh" /\ ret')
        => HierarchyNames(fs'.lines)
           = SelectSeq(IF arg'.include_fingers THEN FULL_JOINT_ORDER ELSE JOINT_ORDER,
                       LAMBDA j : j \in DOMAIN rm.recorded_frames[1].joints) ]_vars

(* ======================= properties of the BVH parser ==================== *)
\* the text of a BVH file as its writer sees it: the lines of motion data are
\* the non-empty lines after MOTION other than the Frames: and Frame Time: lines
MotionIndex(lines) == CHOOSE i \in 1..Len(lines) : lines[i] = <<"MOTION">>
MotionLines(lines) ==
    SelectSeq(SubSeq(lines, MotionIndex(lines) + 1, Len(lines)),
              LAMBDA l : l # <<>> /\ l[1] \notin {"Frames:", "Frame"})
DeclaredFrameTime(lines) ==
    (CHOOSE i \in 1..Len(lines) : Len(lines[i]) = 3 /\ lines[i][1] = "Frame")

\* parse_bvh returned to its caller with a skeleton
Returned == op = "parse_bvh" /\ fs.exists /\ ~parsed.raised

\* C16: parsing a BVH text with J distinctly named joints and F motion lines
\* returns a joint map with exactly the J names, a motion list with exactly the
\* F lines' values in file order, and the declared Frame Time as frame_time.
C16_ParseCounts ==
    Returned
    => LET names == HierarchyNames(fs.lines)
           motion == MotionLines(fs.lines)
       IN (\A a, b \in 1..Len(names) : a # b => names[a] # names[b])
          => /\ Cardinality(DOMAIN parsed.joints) = Len(names)
             /\ DOMAIN parsed.joints = {names[i] : i \in 1..Len(names)}
             /\ Len(parsed.motion_data) = Len(motion)
             /\ \A i \in 1..Len(motion) : parsed.motion_data[i] = Floats(motion[i])
             /\ parsed.frame_time = float(fs.lines[DeclaredFrameTime(fs.lines)][3])

\* a parsed file of four joints and two different motion lines
C16_Witness ==
    /\ Returned
    /\ Len(HierarchyNames(fs.lines)) = 4
    /\ Len(MotionLines(fs.lines)) = 2
    /\ MotionLines(fs.lines)[1] # MotionLines(fs.lines)[2]
    /\ Cardinality(DOMAIN parsed.joints) = 4
    /\ Len(parsed.motion_data) = 2
    /\ parsed.frame_time = 33333

\* the CHANNELS lines of a text, in file order
ChannelsLines(lines) == SelectSeq(lines, LAMBDA l : l # <<>> /\ l[1] = "CHANNELS")

\* the running channel count at the k-th CHANNELS line
RECURSIVE RunningCount(_, _)
RunningCount(cl, k) ==
    IF k = 1 THEN 0 ELSE RunningCount(cl, k - 1) + (Len(cl[k - 1]) - 2)

\* C17: after parsing, the k-th joint's channels are those of the k-th CHANNELS
\* line and take consecutive indices from the running channel count at that
\* line; no index is given to two channels of the skeleton, and the spans
\* together cover 0..(total channel count - 1).
C17_ChannelIndicesGlobal ==
    Returned
    => LET cl == ChannelsLines(fs.lines)
           arena == parsed.arena
           slots == {<<k, c>> : k \in 1..Len(arena),
                                c \in {"Xposition", "Yposition", "Zposition",
                                       "Xrotation", "Yrotation", "Zrotation"}}
           used == {s \in slots : s[2] \in DOMAIN arena[s[1]].channel_indices}
           index(s) == arena[s[1]].channel_indices[s[2]]
       IN /\ Len(cl) = Len(arena)
          /\ \A k \in 1..Len(arena) :
                /\ arena[k].channels = SubSeq(cl[k], 3, Len(cl[k]))
                /\ arena[k].channel_start_index = RunningCount(cl, k)
                /\ DOMAIN arena[k].channel_indices
                   = {arena[k].channels[i] : i \in 1..Len(arena[k].channels)}
                /\ \A i \in 1..Len(arena[k].channels) :
                      arena[k].channel_indices[arena[k].channels[i]]
                      = RunningCount(cl, k) + i - 1
          /\ \A s, t \in used : index(s) = index(t) => s = t
          /\ {index(s) : s \in used} = 0..(RunningCount(cl, Len(cl) + 1) - 1)

\* a parsed skeleton of four joints with 6 + 3 + 3 + 3 channels
C17_Witness ==
    /\ Returned
    /\ Len(parsed.arena) = 4
    /\ parsed.arena[1].channel_indices["Yrotation"] = 5
    /\ parsed.arena[3].channel_start_index = 9
    /\ parsed.arena[4].channel_indices["Zrotation"] = 14

\* the lines that declare a joint, in file order, and the braces between lines
DeclarationLines(lines) ==
    {i \in 1..Len(lines) : lines[i] # <<>> /\ lines[i][1] \in {"ROOT", "JOINT"}}
Opened(lines, a, b) ==
    Cardinality({i \in a..b : lines[i] = <<"{">>})
    - Cardinality({i \in a..b : lines[i] = <<"}">>})

\* the declaration whose block encloses line i: the nearest earlier declaration
\* with a brace still open at line i (0 when no block encloses it)
Encloser(lines, i) ==
    LET open == {k \in DeclarationLines(lines) : k < i /\ Opened(lines, k + 1, i - 1) >= 1}
    IN IF open = {} THEN 0 ELSE CHOOSE k \in open : \A o \in open : o <= k

\* the position of declaration line i among the declarations (the joint's id)
JointOfLine(lines, i) == Cardinality({k \in DeclarationLines(lines) : k <= i})

\* C18: every skeleton returned by parse_bvh is a tree: exactly one joint has no
\* parent, the returned root; every other joint's parent is the joint whose
\* block encloses it; each joint appears exactly once in its parent's children,
\* in declaration order (so an End Site block leaves the nesting stack alone).
C18_ParsedSkeletonIsTree ==
    (Returned /\ parsed.root_joint # NoneValue)
    => LET lines == fs.lines
           arena == parsed.arena
           ids == 1..Len(arena)
       IN /\ Cardinality(DeclarationLines(lines)) = Len(arena)
          /\ \A j \in ids : (arena[j].parent = NoneValue) <=> (j = parsed.root_joint)
          /\ \A i \in DeclarationLines(lines) :
                LET j == JointOfLine(lines, i)
                IN /\ arena[j].name = lines[i][2]
                   /\ arena[j].parent
                      = IF Encloser(lines, i) = 0 THEN NoneValue
                        ELSE JointOfLine(lines, Encloser(lines, i))
          /\ \A p \in ids :
                LET kids == arena[p].children
                IN /\ {kids[n] : n \in 1..Len(kids)} = {j \in ids : arena[j].parent = p}
                   /\ \A a, b \in 1..Len(kids) : a < b => kids[a] < kids[b]

\* for the texts of one nested ROOT block the parsed skeleton is that tree
WellFormedTextGivesTree ==
    (fs.exists /\ fs.lines \in WellFormedTexts) => C18_ParsedSkeletonIsTree

\* C19: parse_bvh never raises: for an unreadable file and for a hierarchy with
\* inconsistent braces (a closing brace too many, or OFFSET, CHANNELS or End
\* Site outside any joint block) it returns the failure result
\* (None, {}, [], 0, 0).
C19_ParseNeverRaises ==
    op = "parse_bvh"
    => /\ ~parsed.raised
       /\ (~fs.exists \/ fs.lines \in MalformedTexts) => parsed = ParseFailure

(* ===================== properties of the offline evaluator =============== *)
\* C20: evaluation is deterministic and history-independent: the transforms
\* after update_joint_matrices are those computed from joints that hold the
\* identity, and those computed after any other frame of the file was
\* evaluated first; each joint's transform is its parent's transform of the
\* same call times its offset and its rotations (the root's is its position
\* and its rotations); the skeleton, the motion data and the file are unchanged.
C20_EvaluationHistoryIndependent ==
    [][ op' = "update_joint_matrices"
        => LET sk == parsed
               root == parsed.root_joint
               frame == arg'.frame_data
               ids == 1..Len(sk.arena)
               fresh == [j \in ids |-> Identity4]
               value(j, c) ==
                   IF \E i \in 1..Len(sk.arena[j].channels) : sk.arena[j].channels[i] = c
                   THEN frame[sk.arena[j].channel_indices[c] + 1] ELSE 0
           IN /\ DOMAIN matrix' = ids
              /\ matrix' = update_joint_matrices(sk, fresh, root, frame)
              /\ \A k \in 1..Len(sk.motion_data) :
                    matrix' = update_joint_matrices(
                                  sk, update_joint_matrices(sk, fresh, root,
                                                            sk.motion_data[k]),
                                  root, frame)
              /\ \A j \in ids :
                    matrix'[j]
                    = rotate_channels(
                          IF j = root
                          THEN Translation(<<value(j, "Xposition"), value(j, "Yposition"),
                                             value(j, "Zposition")>>)
                          ELSE MatMul(matrix'[sk.arena[j].parent],
                                      Translation(sk.arena[j].offset)),
                          sk.arena[j], frame, 1)
              /\ parsed' = parsed
              /\ fs' = fs ]_vars

\* a skeleton of four joints evaluated at the frame of zeros of a file that
\* also holds a frame of quarter turns: every joint is at its rest position
C20_Witness ==
    /\ op = "update_joint_matrices"
    /\ Len(parsed.arena) = 4
    /\ Len(parsed.motion_data) = 2
    /\ parsed.motion_data[1] # parsed.motion_data[2]
    /\ \A i \in 1..Len(arg.frame_data) : arg.frame_data[i] = 0
    /\ matrix[1] = Identity4
    /\ matrix[3] = Translation(<<0, 18000000, 0>>)
    /\ matrix[4] = Translation(<<8500000, 0, 0>>)

(* ======================== properties of the kinematics =================== *)
\* C21 as stated: for the positions P(0..n) computed by calculate_kinematics,
\* Velocity(0) = Velocity(1) = 0 and Velocity(i) = (P(i) - P(i-1)) / frame_time
\* for every i >= 2, for every joint (frame i is entry i + 1 of the lists).
C21_VelocityZeroForTwoFrames ==
    op = "calculate_kinematics"
    => \A name \in DOMAIN parsed.joints :
          \A i \in 1..Len(ret.positions) :
             ret.velocities[i][name]
             = IF i <= 2 THEN zeros3
               ELSE difference_over_frame_time(as_quotients(ret.positions[i][name]),
                                               as_quotients(ret.positions[i - 1][name]))

\* C21 amended: Velocity(0) = 0 and Velocity(i) = (P(i) - P(i-1)) / frame_time
\* for every i >= 1, for every joint; there is one velocity for each frame.
C21_VelocityBackwardDifference ==
    op = "calculate_kinematics"
    => /\ Len(ret.positions) = Len(parsed.motion_data)
       /\ Len(ret.positions) > 0 => Len(ret.velocities) = Len(ret.positions)
       /\ \A name \in DOMAIN parsed.joints :
             \A i \in 1..Len(ret.positions) :
                ret.velocities[i][name]
                = IF i = 1 THEN zeros3
                  ELSE difference_over_frame_time(
                           as_quotients(ret.positions[i][name]),
                           as_quotients(ret.positions[i - 1][name]))

\* the kinematics of three frames in which the root moves between the first
\* and the second frame, and again between the second and the third
C21_Witness ==
    /\ op = "calculate_kinematics"
    /\ Len(ret.positions) = 3
    /\ ret.positions[1]["Hips"] # ret.positions[2]["Hips"]
    /\ ret.positions[2]["Hips"] # ret.positions[3]["Hips"]
    /\ ret.velocities[2]["Hips"] = <<Quotient(90000000, 1), Quotient(90000000, 1),
                                     Quotient(90000000, 1)>>
    /\ ret.velocities[3]["Hips"] = <<Quotient(-90000000, 1), Quotient(-90000000, 1),
                                     Quotient(-90000000, 1)>>

\* the triples of joints whose angle calculate_anatomical_angles computes, each
\* under the name of its entry: (parent, joint, child) for every child of every
\* swept joint, and the two triples computed after the sweep
SweepTriples(sk) ==
    { <<sk.arena[sk.arena[j].parent].name \o "_" \o sk.arena[j].name,
        sk.arena[sk.arena[j].parent].name, sk.arena[j].name,
        sk.arena[sk.arena[j].children[k]].name>> :
      <<j, k>> \in { jk \in (1..Len(sk.arena)) \X (1..Len(sk.arena)) :
                       /\ sk.arena[jk[1]].parent # NoneValue
                       /\ jk[2] <= Len(sk.arena[jk[1]].children)
                       /\ \E n \in 1..Len(CUSTOM_JOINT_ORDER) :
                             CUSTOM_JOINT_ORDER[n] = sk.arena[jk[1]].name } }
ExtraTriples ==
    { <<"Hips_Spine", "Hips", "Spine", "Spine2">>,
      <<"Spine2_Neck", "Spine2", "Neck", "Head">> }

\* the vector from the vertex of a triple to one of its ends
VectorFrom(sk, m, vertex, end) ==
    LET a == get_world_position(m[sk.joints[vertex]])
        b == get_world_position(m[sk.joints[end]])
    IN <<b[1] - a[1], b[2] - a[2], b[3] - a[3]>>

\* a triple has an angle: its joints exist and both vectors are longer than 1e-6
Defined(sk, m, t) ==
    /\ {t[2], t[3], t[4]} \subseteq DOMAIN sk.joints
    /\ longer_than_1e6th(VectorFrom(sk, m, t[3], t[2]))
    /\ longer_than_1e6th(VectorFrom(sk, m, t[3], t[4]))

\* C22: calculate_anatomical_angles returns no entry for a triple with a missing
\* joint or a vector shorter than 1e-6; every entry is the angle of a defined
\* triple, in [0, 180] (180 for a straight chain, 0 for a chain folded back);
\* and a valid angle found by the adjacency sweep is in the result, whatever
\* undefined triple is computed later.
C22_AnglesDefinedAndKept ==
    op = "calculate_kinematics"
    => \A i \in 1..Len(ret.anatomical_angles) :
          LET sk == parsed
              m == frame_matrices(parsed, parsed.motion_data[i])
              result == ret.anatomical_angles[i]
              angle(t) == get_vector_angle(sk.joints, m, t[2], t[3], t[4])
          IN /\ \A key \in DOMAIN result :
                   /\ result[key] \in 0..180000000
                   /\ \E t \in SweepTriples(sk) \cup ExtraTriples :
                         t[1] = key /\ Defined(sk, m, t) /\ result[key] = angle(t)
             /\ \A t \in SweepTriples(sk) \cup ExtraTriples :
                   Defined(sk, m, t)
                   => LET u == Direction(VectorFrom(sk, m, t[3], t[2]))
                          v == Direction(VectorFrom(sk, m, t[3], t[4]))
                      IN /\ (u = <<-v[1], -v[2], -v[3]>>) => angle(t) = 180000000
                         /\ (u = v) => angle(t) = 0
             /\ \A t \in SweepTriples(sk) : Defined(sk, m, t) => t[1] \in DOMAIN result

(* ------------------- real-time and recorded playback ------------------- *)
\* quat_to_rot3x3(w, x, y, z) of the unit quaternion that (w, x, y, z) stands for
quat_to_rot3x3(w, x, y, z) ==
    LET n == squared_norm(w, x, y, z)
    IN << << (n - 2 * (y * y + z * z)) \div n, (2 * (x * y - z * w)) \div n,
             (2 * (x * z + y * w)) \div n >>,
          << (2 * (x * y + z * w)) \div n, (n - 2 * (x * x + z * z)) \div n,
             (2 * (y * z - x * w)) \div n >>,
          << (2 * (x * z - y * w)) \div n, (2 * (y * z + x * w)) \div n,
             (n - 2 * (x * x + y * y)) \div n >> >>

\* update_joint(joint) of update_realtime_joints: the joint, then its children;
\* positions are whole numbers here and millionths in the matrices
RECURSIVE update_joint(_, _, _, _), update_joint_children(_, _, _, _, _)
update_joint(sk, m, frame_joints, j) ==
    LET joint == sk.arena[j]
        data == IF joint.name \in DOMAIN frame_joints
                THEN frame_joints[joint.name] ELSE DefaultJointData
        rot == data.rotation
        R3 == quat_to_rot3x3(rot[1], rot[2], rot[3], rot[4])
        R4 == <<R3[1] \o <<0>>, R3[2] \o <<0>>, R3[3] \o <<0>>, <<0, 0, 0, 1>>>>
        pos == data.position
        \* T, or parent_matrix @ T
        placed == IF joint.parent = NoneValue
                  THEN Translation(<<pos[1] * 1000000, pos[2] * 1000000,
                                     pos[3] * 1000000>>)
                  ELSE MatMul(m[sk.joints[sk.arena[joint.parent].name]],
                              Translation(joint.offset))
        own == MatMul(placed, R4)
        \* the joint's matrix is assigned before its children are visited
        assigned == [m EXCEPT ![j] = own]
    \* (each product is computed before the next one)
    IN IF Len(R4) = 4 /\ Len(placed) = 4 /\ Len(assigned) = Len(m)
       THEN update_joint_children(sk, assigned, frame_joints, joint.children,
                                  Len(joint.children))
       ELSE assigned
\* "for child in joint.children: update_joint(child)", the first n children
update_joint_children(sk, m, frame_joints, children, n) ==
    IF n = 0 THEN m
    ELSE LET earlier == update_joint_children(sk, m, frame_joints, children, n - 1)
         IN  IF Len(earlier) = Len(m)
             THEN update_joint(sk, earlier, frame_joints, children[n])
             ELSE earlier

\* update_realtime_joints(frame_data, target_joints, root_joint): the matrices
\* of the joints after the call, for a frame that carries joints (the callers
\* pass the frame a poll returned)
update_realtime_joints(frame, sk, m) ==
    IF sk.root_joint = NoneValue THEN m
    ELSE update_joint(sk, m, frame.joints, sk.root_joint)

(* --------------------- the viewer in its main loop --------------------- *)
\* joint_hierarchy of init_realtime_skeleton, in the order of its keys
joint_hierarchy ==
    << <<"Hips", NoParent>>,
       <<"RightUpLeg", "Hips">>, <<"RightLeg", "RightUpLeg">>, <<"RightFoot", "RightLeg">>,
       <<"LeftUpLeg", "Hips">>, <<"LeftLeg", "LeftUpLeg">>, <<"LeftFoot", "LeftLeg">>,
       <<"Spine", "Hips">>, <<"Spine1", "Spine">>, <<"Spine2", "Spine1">>,
       <<"Neck", "Spine2">>, <<"Neck1", "Neck">>, <<"Head", "Neck1">>,
       <<"RightShoulder", "Spine2">>, <<"RightArm", "RightShoulder">>,
       <<"RightForeArm", "RightArm">>, <<"RightHand", "RightForeArm">>,
       <<"LeftShoulder", "Spine2">>, <<"LeftArm", "LeftShoulder">>,
       <<"LeftForeArm", "LeftArm">>, <<"LeftHand", "LeftForeArm">> >>

\* the viewer's joints and root_joint before a file is loaded or a frame shown
NoSkeleton == [root_joint |-> NoneValue, joints |-> <<>>, arena |-> <<>>]

\* init_realtime_skeleton(): joints is cleared and filled with the joints of
\* joint_hierarchy, each under its parent and with its default offset, or with
\* (0, 0, 0) when recording_manager cannot be imported, and root_joint is
\* joints.get('Hips')
init_realtime_skeleton(sk, imp) ==
    LET index(name) == CHOOSE i \in 1..Len(joint_hierarchy) : joint_hierarchy[i][1] = name
        parent(i) == IF joint_hierarchy[i][2] = NoParent THEN NoneValue
                     ELSE index(joint_hierarchy[i][2])
        offset(name) == IF imp.recording /\ name \in DOMAIN DEFAULT_OFFSETS
                        THEN << float(DEFAULT_OFFSETS[name][1]),
                                float(DEFAULT_OFFSETS[name][2]),
                                float(DEFAULT_OFFSETS[name][3]) >>
                        ELSE <<0, 0, 0>>
        \* the joints in the order they are created, as a sequence
        created == [i \in 1..Len(joint_hierarchy) |->
                       [Joint(joint_hierarchy[i][1], parent(i)) EXCEPT
                           !.offset = offset(joint_hierarchy[i][1]),
                           !.children = SelectSeq([j \in 1..Len(joint_hierarchy) |-> j],
                                                  LAMBDA j : parent(j) = i)]] \o <<>>
    IN [sk EXCEPT
          !.arena = created,
          !.joints = [name \in {joint_hierarchy[i][1] : i \in 1..Len(joint_hierarchy)} |->
                         index(name)],
          !.root_joint = index("Hips")]

\* the frame a frame event stands for: the hips at a place of their own, and
\* turned a quarter about Z in every second frame
RealtimeFrame(n) ==
    [joints |-> [Hips |-> [position |-> <<n, 0, 0>>,
                           rotation |-> IF n % 2 = 0 THEN <<1, 0, 0, 1>>
                                        ELSE <<1, 0, 0, 0>>]]]

\* main loop, after poll_and_update returned frame_data: "if not joints or
\* root_joint is None: init_realtime_skeleton()"
main_loop_skeleton(sk, fd, imp) ==
    IF fd # NoneValue /\ (DOMAIN sk.joints = {} \/ sk.root_joint = NoneValue)
    THEN init_realtime_skeleton(sk, imp) ELSE sk

\* main loop: the matrices of the joints after update_realtime_joints; the
\* joints init_realtime_skeleton creates hold the identity
main_loop_matrices(sk, m, fd, imp) ==
    IF fd = NoneValue THEN m
    ELSE LET skeleton == main_loop_skeleton(sk, fd, imp)
         IN  IF skeleton = sk
             THEN update_realtime_joints(RealtimeFrame(fd), sk, m)
             ELSE update_realtime_joints(
                      RealtimeFrame(fd), skeleton,
                      [j \in 1..Len(skeleton.arena) |-> Identity4] \o <<>>)

\* main loop: "if recording_manager and recording_manager.is_recording:
\* record_frame(frame_data['joints'])"
main_loop_record(r, fd, imp) ==
    IF fd # NoneValue /\ imp.recording /\ r.is_recording
    THEN record_frame(r, RealtimeFrame(fd).joints) ELSE r

\* the viewer starts in Offline mode, with no skeleton and no file loaded
InitApp ==
    /\ InitOnline
    /\ heap = <<>>
    /\ handed = NoneValue
    /\ fs = NoFile
    /\ parsed = NoSkeleton
    /\ matrix = <<>>
    /\ arg = NoneValue
    /\ ax = AxisStudioConnector
    /\ lock = Unlocked
    /\ reader = ReaderIdle
    /\ pending = <<>>
    /\ imported \in Imports

\* time passes between the passes of the main loop, MaxAppTicks times
AppTick ==
    /\ now + TickStep <= 1 + MaxAppTicks * TickStep
    /\ Tick

\* a key handler of the main loop
UiCall(name, o, a, r, m) ==
    /\ pc = "idle"
    /\ mc' = o.c
    /\ ret' = o.ret
    /\ out' = o.out
    /\ ax' = a
    /\ rm' = r
    /\ mode' = m
    /\ op' = name
    /\ UNCHANGED <<now, pc, nev, ev, frame_data, total_frames,
                   heap, handed, fs, parsed, matrix, arg, lock, reader, pending, imported>>

ToggleMode ==
    UiCall("toggle_mode", toggle_mode_connector(mode, mc), toggle_mode_listener(mode, ax),
           toggle_mode_recorder(rm), toggle_mode_next(mode, imported))

ToggleConnection ==
    \E open_ok, available \in BOOLEAN :
        UiCall("toggle_connection",
               IF mode = MOCAP THEN toggle_connection(mc, open_ok)
               ELSE Outcome(mc, FALSE, <<>>),
               IF mode = SECAP THEN toggle_connection_secap(ax, available, open_ok, now)
               ELSE ax,
               rm, mode)

ToggleRecording ==
    UiCall("toggle_recording", Outcome(mc, FALSE, <<>>), ax,
           toggle_recording(mode, mc, ax, rm, imported), mode)

UiStartCalibration ==
    UiCall("ui_start_calibration", ui_start_calibration(mode, mc, now), ax, rm, mode)

\* main loop, real-time branches: poll_and_update is called while the
\* connector of the mode is connected (listening)
MainLoopPoll ==
    /\ pc = "idle"
    /\ \/ mode = MOCAP /\ mc.is_connected
       \/ mode = SECAP /\ ax.is_listening
    /\ rm.is_recording => Len(rm.recorded_frames) < MaxRecorded
    /\ op' = "poll_and_update"
    /\ out' = <<>>
    /\ ret' = FALSE
    /\ frame_data' = NoneValue
    /\ nev' = 0
    /\ pc' = "events"
    /\ UNCHANGED <<offlineVars, mc, rm, mode, now, ev, total_frames>>

\* one iteration of the event loop of the connector of the mode
MainLoopPollEvent ==
    /\ pc = "events"
    /\ nev < MaxBatch
    /\ \E e \in IF mode = SECAP THEN AxisEvents ELSE Events :
         /\ mc' = IF mode = SECAP THEN mc ELSE handle_event(mc, e, now)
         /\ ax' = IF mode = SECAP THEN axis_handle_event(ax, e, now) ELSE ax
         /\ ev' = e
         /\ frame_data' = IF e.type = "AvatarUpdated" THEN e.arg ELSE frame_data
    /\ nev' = nev + 1
    /\ UNCHANGED <<rm, mode, now, pc, op, ret, total_frames, out,
                   heap, handed, fs, parsed, matrix, arg, lock, reader, pending, imported>>

\* poll_and_update returns to the main loop
MainLoopPollReturn == PollReturn("polled")

\* main loop, after the poll: the skeleton is created if there is none, the
\* frame is shown and, while recording, recorded
MainLoopFrame ==
    /\ pc = "polled"
    /\ parsed' = main_loop_skeleton(parsed, frame_data, imported)
    /\ matrix' = main_loop_matrices(parsed, matrix, frame_data, imported)
    /\ rm' = main_loop_record(rm, frame_data, imported)
    /\ pc' = "idle"
    /\ op' = "main_loop"
    /\ UNCHANGED <<mc, mode, now, nev, ev, frame_data, ret, total_frames, out,
                   heap, handed, fs, arg, ax, lock, reader, pending, imported>>

NextApp ==
    \/ AppTick
    \/ ToggleMode
    \/ ToggleConnection
    \/ ToggleRecording
    \/ UiStartCalibration
    \/ MainLoopPoll
    \/ MainLoopPollEvent
    \/ SlotPollAcquire
    \/ SlotPollWrite
    \/ SlotPollRelease
    \/ MainLoopPollReturn
    \/ MainLoopFrame

SpecApp == InitApp /\ [][NextApp]_vars

\* the unit quaternions of the 24 rotations that map axes to axes
AxisQuaternions ==
    { q \in [1..4 -> {-1, 0, 1}] :
        q[1] * q[1] + q[2] * q[2] + q[3] * q[3] + q[4] * q[4] \in {1, 2, 4} }

\* real-time frames of a two-joint skeleton: any rotation of the hips, and the
\* spine at rest, turned about Z, or turned about X (the gimbal singularity)
PlaybackFrames ==
    { [n \in {"Hips", "Spine"} |->
          IF n = "Hips" THEN [position |-> <<1, 0, 2>>, rotation |-> <<q[1], q[2], q[3], q[4]>>]
          ELSE [position |-> <<0, 0, 0>>, rotation |-> s]] :
        q \in AxisQuaternions, s \in {<<1, 0, 0, 0>>, <<1, 0, 0, 1>>, <<1, 1, 0, 0>>} }

\* the file export_to_bvh writes for a recording of one such frame
RecordingOf(joints) ==
    File(split_lines(bvh_text([recorded_frames |-> << [joints |-> joints] >>,
                               frame_time |-> 16667],
                              <<"Hips", "Spine">>)))

InitPlayback ==
    /\ mc = MocapConnector
    /\ rm = RecordingManager
    /\ mode = OFFLINE
    /\ now = 1
    /\ pc = "idle"
    /\ nev = 0
    /\ ev = NoEvent
    /\ op = "init"
    /\ ret = FALSE
    /\ total_frames = 0
    /\ out = <<>>
    /\ heap = <<>>
    /\ handed = NoneValue
    /\ parsed = NoneValue
    /\ matrix = <<>>
    /\ arg = NoneValue
    /\ ax = AxisStudioConnector
    /\ lock = Unlocked
    /\ reader = ReaderIdle
    /\ pending = <<>>
    /\ imported = AllImported
    /\ \E joints \in PlaybackFrames :
          /\ frame_data = [joints |-> joints]
          /\ fs = RecordingOf(joints)

NextPlayback == ParseBvh \/ CalculateKinematics \/ UpdateJointMatrices
SpecPlayback == InitPlayback /\ [][NextPlayback]_vars

\* the rotation of a joint of the frame is away from the gimbal singularity
AwayFromGimbalLock(rot) == quat_to_rot3x3(rot[1], rot[2], rot[3], rot[4])[3][2] = 0

\* C23: when the quaternions of a real-time frame are away from gimbal lock,
\* the angles quaternion_to_euler_zxy wrote for it, applied by the offline
\* evaluator as Zrotation, Xrotation, Yrotation, give every joint the matrix
\* the real-time evaluator gives it for the frame.
C23_EulerPlaybackMatchesRealtime ==
    (/\ op = "update_joint_matrices"
     /\ \A n \in DOMAIN frame_data.joints :
           AwayFromGimbalLock(frame_data.joints[n].rotation))
    => matrix = update_realtime_joints(frame_data, parsed, matrix)

(* ------------------ the slot and the thread that reads it -------------- *)
\* the events handed to a poll: frames, and events that carry no frame
SlotEvents ==
    IF mode = SECAP THEN AxisEvents
    ELSE {e \in Events : e.type \in {"AvatarUpdated", "Error"}}

InitSlot ==
    /\ mc = MocapConnector
    /\ rm = RecordingManager
    /\ mode \in {MOCAP, SECAP}
    /\ now = 1
    /\ pc = "idle"
    /\ nev = 0
    /\ ev = NoEvent
    /\ frame_data = NoneValue
    /\ op = "init"
    /\ ret = FALSE
    /\ total_frames = 0
    /\ out = <<>>
    /\ heap = <<>>
    /\ handed = NoneValue
    /\ fs = NoFile
    /\ parsed = NoneValue
    /\ matrix = <<>>
    /\ arg = NoneValue
    /\ ax = AxisStudioConnector
    /\ lock = Unlocked
    /\ reader = ReaderIdle
    /\ pending = <<>>
    /\ imported = AllImported

SlotConnect == mode = MOCAP /\ Connect

StartListening ==
    /\ mode = SECAP
    /\ pc = "idle"
    /\ \E available, open_ok \in BOOLEAN :
          /\ ax' = start_listening(ax, available, open_ok, now).c
          /\ ret' = start_listening(ax, available, open_ok, now).ret
    /\ op' = "start_listening"
    /\ UNCHANGED <<mc, rm, mode, now, pc, nev, ev, frame_data, total_frames, out,
                   heap, handed, fs, parsed, matrix, arg, lock, reader, pending, imported>>

StopListening ==
    /\ mode = SECAP
    /\ pc = "idle"
    /\ ax' = stop_listening(ax)
    /\ op' = "stop_listening"
    /\ UNCHANGED <<mc, rm, mode, now, pc, nev, ev, frame_data, ret, total_frames, out,
                   heap, handed, fs, parsed, matrix, arg, lock, reader, pending, imported>>

\* the early return, or the events are fetched; arg collects the events handled
SlotPollBegin ==
    /\ pc = "idle"
    /\ op' = "poll_and_update"
    /\ frame_data' = NoneValue
    /\ nev' = 0
    /\ arg' = <<>>
    /\ pc' = IF PollGoesOn THEN "events" ELSE "idle"
    /\ UNCHANGED <<mc, rm, mode, now, ev, ret, total_frames, out,
                   heap, handed, fs, parsed, matrix, ax, lock, reader, pending, imported>>

\* one iteration of the event loop: a frame event is parsed into frame_data
SlotPollEvent ==
    /\ pc = "events"
    /\ nev < MaxBatch
    /\ \E e \in SlotEvents :
         /\ mc' = IF mode = SECAP THEN mc ELSE handle_event(mc, e, now)
         /\ ax' = IF mode = SECAP THEN axis_handle_event(ax, e, now) ELSE ax
         /\ ev' = e
         /\ frame_data' = IF e.type = "AvatarUpdated" THEN e.arg ELSE frame_data
         /\ arg' = Append(arg, e)
    /\ nev' = nev + 1
    /\ UNCHANGED <<rm, mode, now, pc, op, ret, total_frames, out,
                   heap, handed, fs, parsed, matrix, lock, reader, pending, imported>>

\* get_latest_frame: "with self._lock:", "return self.latest_frame_data", the
\* end of the with block
ReadAcquire ==
    /\ reader.at = "idle"
    /\ lock_free(lock)
    /\ lock' = "get_latest_frame"
    /\ reader' = [reader EXCEPT !.at = "locked"]
    /\ UNCHANGED <<mc, rm, mode, now, pc, nev, ev, frame_data, op, ret, total_frames, out,
                   heap, handed, fs, parsed, matrix, arg, ax, pending, imported>>

ReadSlot ==
    /\ reader.at = "locked"
    /\ reader' = [at |-> "read", got |-> Slot]
    /\ UNCHANGED <<mc, rm, mode, now, pc, nev, ev, frame_data, op, ret, total_frames, out,
                   heap, handed, fs, parsed, matrix, arg, ax, lock, pending, imported>>

ReadRelease ==
    /\ reader.at = "read"
    /\ lock' = Unlocked
    /\ reader' = [reader EXCEPT !.at = "idle"]
    /\ UNCHANGED <<mc, rm, mode, now, pc, nev, ev, frame_data, op, ret, total_frames, out,
                   heap, handed, fs, parsed, matrix, arg, ax, pending, imported>>

NextSlot ==
    \/ SlotConnect
    \/ StartListening
    \/ SlotPollBegin
    \/ SlotPollEvent
    \/ SlotPollAcquire
    \/ SlotPollWrite
    \/ SlotPollRelease
    \/ SlotPollReturn
    \/ ReadAcquire
    \/ ReadSlot
    \/ ReadRelease

SpecSlot == InitSlot /\ [][NextSlot]_vars

\* the frames of the frame events of a batch, in order
FramesOf(events) ==
    LET frames == SelectSeq(events, LAMBDA e : e.type = "AvatarUpdated")
    IN [i \in 1..Len(frames) |-> frames[i].arg]

\* C24: the poll writes the slot, and get_latest_frame reads it, only while
\* holding the lock, so the value read is the slot's value until the lock is
\* released; the poll does not hold the lock while it parses events or once it
\* has returned (when the frame is evaluated); and when a poll that handled
\* frame events has returned, the slot and the value returned are the last
\* frame of the batch.
C24_LatestValueCell ==
    /\ pc \in {"locked", "written"} => lock = "poll_and_update"
    /\ reader.at \in {"locked", "read"} => lock = "get_latest_frame"
    /\ reader.at = "read" => reader.got = Slot
    /\ pc \in {"events", "after", "idle"} => lock # "poll_and_update"
    /\ (pc = "idle" /\ op = "poll_and_update" /\ arg # <<>>)
       => LET frames == FramesOf(arg)
          IN frames # <<>> => /\ Slot = frames[Len(frames)]
                              /\ frame_data = frames[Len(frames)]

\* a poll of two different frames has returned, the second is in the slot, and
\* the other thread has read it
C24_Witness ==
    /\ pc = "idle"
    /\ op = "poll_and_update"
    /\ arg # <<>>
    /\ Len(FramesOf(arg)) = 2
    /\ FramesOf(arg)[1] # FramesOf(arg)[2]
    /\ Slot = FramesOf(arg)[2]
    /\ reader = [at |-> "read", got |-> FramesOf(arg)[2]]

(* ---------------------- calibration progress events -------------------- *)
\* C25: a progress event handled by a poll changes nothing but
\* CalibrationState, changes it only to Preparing, Countdown or InProgress, and
\* only while calibrate is the outstanding command; handled with the sentinel
\* empty or holding another command it changes no state, and a Completed or
\* Failed calibration is never moved by it.
C25_ProgressOnlyWhileCalibrating ==
    [][ (pc = "events" /\ nev' = nev + 1 /\ ev'.type = "Running")
        => /\ [mc' EXCEPT !.calibration_state = mc.calibration_state] = mc
           /\ mc'.calibration_state # mc.calibration_state
              => /\ mc'.calibration_state \in {PREPARING, COUNTDOWN, IN_PROGRESS}
                 /\ mc.current_command = CommandCalibrateMotion
           /\ mc.current_command # CommandCalibrateMotion => mc' = mc
           /\ mc.calibration_state \in {COMPLETED, FAILED} => mc' = mc ]_vars

\* a progress event was handled after the calibration completed and the result
\* emptied the sentinel, and the calibration is still Completed
C25_Witness ==
    /\ pc = "events"
    /\ ev.type = "Running"
    /\ ev.arg = CalibrateMotionProgressStep_Progress
    /\ mc.current_command = NoCommand
    /\ mc.calibration_state = COMPLETED
    /\ mc.capture_phase = CALIBRATED

(* --------------------- exported motion and hierarchy ------------------- *)
\* C26: in the file an export wrote, every motion line has as many values as
\* the hierarchy declares channels, 6 for the root and 3 for every other
\* declared joint, and the joints are declared in the order in which their
\* values are written (the order of the joints exported), whatever joints the
\* first buffered frame holds and for both include_fingers settings.
C26_MotionLinesMatchHierarchy ==
    (op = "export_to_bvh" /\ ret)
    => LET lines == fs.lines
           declared == HierarchyNames(lines)
           motion == MotionLines(lines)
       IN /\ DeclaredChannels(lines) = 6 + 3 * (Len(declared) - 1)
          /\ \A i \in 1..Len(motion) : Len(motion[i]) = DeclaredChannels(lines)
          /\ declared = joints_to_export_of(rm, arg.include_fingers)

(* ------------------------- sessions of a connector --------------------- *)
\* C27: a successful connect() of a connector that is not connected (a fresh
\* one, or one that disconnect() left in whatever state) leaves the
\* outstanding-command sentinel empty, so that the start_capture() that
\* follows is accepted.
C27_ReconnectClearsSentinel ==
    [][ (~mc.is_connected /\ op' = "connect" /\ ret')
        => /\ mc'.current_command = NoCommand
           /\ start_capture(mc').ret ]_vars

(* --------------------- calibrated means completed ---------------------- *)
\* C28: in every reachable state of the connector, a CapturePhase of
\* Calibrated comes with a CalibrationState of Completed.
C28_CalibratedImpliesCompleted ==
    mc.capture_phase = CALIBRATED => mc.calibration_state = COMPLETED

\* a failure result was handled while the phase was Calibrated, and the
\* calibration is still Completed
C28_Witness ==
    /\ pc = "events"
    /\ ev.type = "Result"
    /\ ev.arg # 0
    /\ mc.capture_phase = CALIBRATED
    /\ mc.calibration_state = COMPLETED

(* --------------------- the replies of the device ----------------------- *)
\* The connector with the device's side of the commands: a command queued by
\* a request waits in pending until the device answers it.  The device answers
\* the commands in the order queued, may leave a command unanswered, and
\* reports calibration progress only while a calibrate command waits; closing
\* the application (disconnect) drops the commands that wait.
ReplyCall(name, o) ==
    /\ pc = "idle"
    /\ Len(pending) + Len(o.out) <= MaxPending
    /\ mc' = o.c
    /\ ret' = o.ret
    /\ out' = o.out
    /\ op' = name
    /\ pending' = IF name = "disconnect" THEN <<>> ELSE pending \o o.out
    /\ UNCHANGED <<rm, mode, now, pc, nev, ev, frame_data, total_frames,
                   heap, handed, fs, parsed, matrix, arg, ax, lock, reader, imported>>

ReplyConnect == \E open_ok \in BOOLEAN : ReplyCall("connect", connect(mc, open_ok))
ReplyDisconnect == ReplyCall("disconnect", disconnect(mc))
ReplyStartCapture == ReplyCall("start_capture", start_capture(mc))
ReplyStopCapture == ReplyCall("stop_capture", stop_capture(mc))
ReplyStartCalibration == ReplyCall("start_calibration", start_calibration(mc, now))

\* one iteration of the event loop on an event the device can send: a frame,
\* a progress report of the calibrate command that waits, or the result of
\* a command that waits (the commands queued before it stay unanswered)
ReplyPollEvent ==
    /\ pc = "events"
    /\ nev < MaxBatch
    /\ \/ \E e \in Events :
            /\ \/ e.type = "AvatarUpdated"
               \/ /\ e.type = "Running"
                  /\ \E i \in 1..Len(pending) : pending[i] = CommandCalibrateMotion
            /\ mc' = handle_event(mc, e, now)
            /\ ev' = e
            /\ frame_data' = IF e.type = "AvatarUpdated" THEN e.arg ELSE frame_data
            /\ pending' = pending
       \/ \E i \in 1..Len(pending), ret_code \in {0, 1} :
            /\ mc' = handle_command_result(mc, ret_code)
            /\ ev' = [type |-> "Result", arg |-> ret_code, command |-> pending[i]]
            /\ frame_data' = frame_data
            /\ pending' = SubSeq(pending, i + 1, Len(pending))
    /\ nev' = nev + 1
    /\ UNCHANGED <<rm, mode, now, pc, op, ret, total_frames, out,
                   heap, handed, fs, parsed, matrix, arg, ax, lock, reader, imported>>

NextReply ==
    \/ Tick
    \/ ReplyConnect
    \/ ReplyDisconnect
    \/ ReplyStartCapture
    \/ ReplyStopCapture
    \/ ReplyStartCalibration
    \/ PollBegin
    \/ ReplyPollEvent
    \/ SlotPollAcquire
    \/ SlotPollWrite
    \/ SlotPollRelease
    \/ SlotPollReturn

SpecReply == Init /\ [][NextReply]_vars

\* C29: a result handled by a poll moves the calibration (CapturePhase to
\* Calibrated, CalibrationState to Completed or Failed) only when it is the
\* device's answer to the calibrate command, and the answer to the calibrate
\* command is handled as the calibrate command's result, not as the result of
\* the start-capture or stop-capture command the sentinel holds.
C29_ResultAnswersItsCommand ==
    [][ (pc = "events" /\ nev' = nev + 1 /\ ev'.type = "Result")
        => /\ (mc'.capture_phase = CALIBRATED /\ mc.capture_phase # CALIBRATED)
              => ev'.command = CommandCalibrateMotion
           /\ mc'.calibration_state # mc.calibration_state
              => ev'.command = CommandCalibrateMotion
           /\ ev'.command = CommandCalibrateMotion
              => mc.current_command \notin {CommandStartCapture, CommandStopCapture} ]_vars

(* ---------------------- the Axis Studio listener ----------------------- *)
\* The calls of AxisStudioConnector in any order, on the thread of the main
\* loop, with the clock: start_listening, stop_listening and poll_and_update.
InitAxis == InitSlot /\ mode = SECAP

NextAxis ==
    \/ Tick
    \/ StartListening
    \/ StopListening
    \/ SlotPollBegin
    \/ SlotPollEvent
    \/ SlotPollAcquire
    \/ SlotPollWrite
    \/ SlotPollRelease
    \/ SlotPollReturn

SpecAxis == InitAxis /\ [][NextAxis]_vars

\* C30: after every call of the listener is_ready_for_recording() is true
\* exactly when the connection state is Receiving, and Receiving implies
\* listening; a poll that ends more than data_timeout after the last frame
\* leaves the state Listening, and a frame handled by a poll leaves it
\* Receiving.
C30_ReadyIffReceiving ==
    [][ /\ pc' = "idle"
           => /\ is_ready_for_recording(ax') <=> ax'.connection_state = RECEIVING
              /\ ax'.connection_state = RECEIVING => ax'.is_listening
        /\ ( /\ pc # "idle"
             /\ pc' = "idle"
             /\ ax.is_receiving_data
             /\ now - ax.last_data_time > data_timeout )
           => ax'.connection_state = LISTENING
        /\ (pc = "events" /\ nev' = nev + 1 /\ ev'.type = "AvatarUpdated")
           => ax'.connection_state = RECEIVING ]_vars

====
